---- MODULE Spec2Model ----
(***************************************************************************)
(* Model of the document automation pipeline:                              *)
(*   utils/pdf_handler.py, utils/ocr_handler.py   (text acquisition)       *)
(*   extractors/combined_extraction.py            (structured extraction)  *)
(*   app.py                                       (request pipeline)       *)
(* Python strings are sequences of one-character strings; an Optional[str] *)
(* is a record [none, val].                                                *)
(***************************************************************************)
EXTENDS Integers, Sequences, FiniteSets, TLC

\* ------------------------------------------------------------------ bounds

\* Largest number of pages of a modelled PDF.
MaxPages == 2
\* Largest number of detections the recognition engine returns for one image.
MaxDetections == 4
\* Number of acquisition calls made in one process lifetime.
MaxCalls == 2

\* --------------------------------------------------------- python strings

Whitespace == {" ", "\n", "\t"}

None == [none |-> TRUE, val |-> <<>>]

Some(s) == [none |-> FALSE, val |-> s]

\* Python truthiness of an Optional[str]: None and "" are falsy.
Truthy(o) == ~o.none /\ o.val /= <<>>

\* c * n
Rep(c, n) == [i \in 1..n |-> c]

RECURSIVE LStrip(_)
LStrip(s) ==
    IF s /= <<>> /\ Head(s) \in Whitespace THEN LStrip(Tail(s)) ELSE s

RECURSIVE RStrip(_)
RStrip(s) ==
    IF s /= <<>> /\ s[Len(s)] \in Whitespace
    THEN RStrip(SubSeq(s, 1, Len(s) - 1))
    ELSE s

\* str.strip()
Strip(s) == RStrip(LStrip(s))

\* str.startswith / str.endswith
StartsWith(s, p) == Len(s) >= Len(p) /\ SubSeq(s, 1, Len(p)) = p

EndsWith(s, p) ==
    Len(s) >= Len(p) /\ SubSeq(s, Len(s) - Len(p) + 1, Len(s)) = p

\* sep.join(parts)
RECURSIVE Join(_, _)
Join(parts, sep) ==
    IF parts = <<>> THEN <<>>
    ELSE IF Len(parts) = 1 THEN parts[1]
    ELSE parts[1] \o sep \o Join(Tail(parts), sep)

\* p in s
Contains(s, p) ==
    \E i \in 1..(Len(s) - Len(p) + 1) : SubSeq(s, i, i + Len(p) - 1) = p

Digits == <<"0", "1", "2", "3", "4", "5", "6", "7", "8", "9">>

\* str(n) for 0 <= n
RECURSIVE IntStr(_)
IntStr(n) ==
    IF n < 10 THEN <<Digits[n + 1]>> ELSE IntStr(n \div 10) \o <<Digits[(n % 10) + 1]>>

\* f"[Page {n}]\n{t}"
PageBlock(n, t) ==
    <<"[", "P", "a", "g", "e", " ">> \o IntStr(n) \o <<"]", "\n">> \o t

\* --------------------------------------------------------- documents

\* Embedded text of one PDF page (page.get_text()): nothing, short, or long
\* enough to carry a document over the direct-text threshold, with and
\* without trailing whitespace.
PageEmbeddedTexts ==
    { <<>>,
      Rep(" ", 45),
      Rep("x", 14),
      Rep("x", 15),
      Rep("x", 40),
      Rep("x", 41),
      Rep("x", 40) \o <<"\n">> }

PageSeqs == UNION { [1..n -> PageEmbeddedTexts] : n \in 0..MaxPages }

\* file_path.suffix.lower() of the stored upload.
Suffixes == {".pdf", ".jpg", ".jpeg", ".png", ".txt", ""}

\* A stored file: its lower-cased suffix, whether fitz can open it, and the
\* embedded text of its pages.
Documents ==
    { [ext |-> ".pdf", readable |-> TRUE, pages |-> p] : p \in PageSeqs }
    \cup { [ext |-> e, readable |-> FALSE, pages |-> <<>>] : e \in Suffixes }

\* --------------------------------------------------------- pdf_handler.py

RECURSIVE TextParts(_, _)
TextParts(pages, page_num) ==
    IF page_num > Len(pages) THEN <<>>
    ELSE (IF pages[page_num] /= <<>>
          THEN <<PageBlock(page_num, pages[page_num])>>
          ELSE <<>>) \o TextParts(pages, page_num + 1)

extract_text_from_pdf(doc) ==
    IF ~doc.readable THEN None
    ELSE LET text_parts == TextParts(doc.pages, 1)
         IN  IF text_parts /= <<>>
             THEN Some(Join(text_parts, <<"\n", "\n">>))
             ELSE None

get_pdf_page_count(doc) == IF doc.readable THEN Len(doc.pages) ELSE 0

\* --------------------------------------------------------- combined_extraction.py

\* A JSON value as extract_data sees it after json.loads.  kind is one of
\* "missing" (the key is not in the object), "null", "str", "num", "list",
\* "obj", "true", "false"; "date" is a datetime.date put there by the date
\* conversion.
Leaf(kind, s, date) == [kind |-> kind, s |-> s, date |-> date]

NoDate == <<0, 0, 0>>

Missing == Leaf("missing", <<>>, NoDate)

JNull == Leaf("null", <<>>, NoDate)

JStr(s) == Leaf("str", s, NoDate)

JNum == Leaf("num", <<>>, NoDate)

JList == Leaf("list", <<>>, NoDate)

JObj == Leaf("obj", <<>>, NoDate)

JTrue == Leaf("true", <<>>, NoDate)

JFalse == Leaf("false", <<>>, NoDate)

DateLeaf(d) == Leaf("date", <<>>, d)

\* models/passport_data.py and models/g28_data.py: the declared fields.
PassportFields ==
    {"surname", "given_names", "middle_names", "passport_number",
     "country_of_issue", "nationality", "date_of_birth", "place_of_birth",
     "sex", "issue_date", "expiry_date"}

DateFields == {"date_of_birth", "issue_date", "expiry_date"}

AttorneyFields ==
    {"first_name", "middle_name", "last_name", "street", "city", "state",
     "zip", "country", "phone", "email", "fax", "online_account"}

EligibilityFields ==
    {"licensing_authority", "bar_number", "law_firm", "is_not_subject_to_orders"}

BoolFields == {"is_not_subject_to_orders"}

ClientFields ==
    {"first_name", "middle_name", "last_name", "street", "city", "state",
     "zip", "country", "phone", "email", "a_number"}

\* A value under a key that should hold an object: its kind and, for an
\* object, its members.
Member(kind, fields) == [kind |-> kind, fields |-> fields]

AllOf(F, leaf) == [f \in F |-> leaf]

NonObject(F, kind) == Member(kind, AllOf(F, Missing))

EmptyDict(F) == Member("obj", AllOf(F, Missing))

G28Value(kind, attorney, eligibility, client) ==
    [kind |-> kind, attorney |-> attorney, eligibility |-> eligibility, client |-> client]

\* The parsed response: the kind of the top-level value and, for an object,
\* what is under "passport" and "g28".
JsonDoc(top, passport, g28) == [top |-> top, passport |-> passport, g28 |-> g28]

\* ---- the responses the remote model is drawn from

ValidDate == <<"2", "0", "3", "0", "-", "0", "1", "-", "1", "5">>

DateStrings ==
    { ValidDate, <<"2", "0", "2", "4", "-", "0", "2", "-", "2", "9">>, <<"2", "0", "2", "3", "-", "0", "2", "-", "2", "9">>, <<"2", "0", "2", "3", "-", "0", "2", "-", "3", "0">>,
      <<"1", "5", "/", "0", "1", "/", "2", "0", "3", "0">>, <<"2", "0", "3", "0", "-", "1", "-", "5">>, <<"2", "0", "3", "0", "-", "1", "3", "-", "0", "1">>, <<"0", "0", "0", "0", "-", "0", "1", "-", "0", "1">>,
      <<>>, <<"2", "0", "3", "0", "-", "0", "1", "-", "1", "5", "T", "0", "0">> }

Bases == {"missing", "null", "str"}

BaseLeaf(base, f) ==
    IF base = "missing" THEN Missing
    ELSE IF base = "null" THEN JNull
    ELSE IF f \in DateFields THEN JStr(ValidDate)
    ELSE IF f \in BoolFields THEN JTrue
    ELSE JStr(<<"v">>)

\* An object whose members all follow `base`, except member f.
ObjectWith(F, base, f, leaf) ==
    Member("obj", [g \in F |-> IF g = f THEN leaf ELSE BaseLeaf(base, g)])

DateLeaves == {Missing, JNull, JNum, JList, JObj} \cup {JStr(s) : s \in DateStrings}

StrLeaves == {Missing, JNull, JStr(<<"v">>), JList}

NonObjectKinds == {"missing", "null", "num", "str", "list"}

PassportValues ==
    { NonObject(PassportFields, k) : k \in NonObjectKinds }
    \cup { ObjectWith(PassportFields, b, f, l) :
             b \in Bases, f \in DateFields, l \in DateLeaves }
    \cup { ObjectWith(PassportFields, b, "surname", l) : b \in Bases, l \in StrLeaves }

AttorneyValues ==
    { NonObject(AttorneyFields, k) : k \in {"missing", "null"} }
    \cup { ObjectWith(AttorneyFields, b, "fax", l) :
             b \in Bases, l \in {Missing, JNull, JStr(<<"v">>)} }

EligibilityValues ==
    { NonObject(EligibilityFields, k) : k \in {"missing", "null"} }
    \cup { ObjectWith(EligibilityFields, b, "is_not_subject_to_orders", l) :
             b \in Bases, l \in {Missing, JNull, JTrue, JFalse, JList} }

ClientValues ==
    { NonObject(ClientFields, "missing"),
      ObjectWith(ClientFields, "null", "a_number", JNull),
      ObjectWith(ClientFields, "str", "a_number", JStr(<<"v">>)),
      ObjectWith(ClientFields, "null", "a_number", JList) }

DefaultPassport == ObjectWith(PassportFields, "null", "surname", JNull)

DefaultClient == ObjectWith(ClientFields, "null", "a_number", JNull)

DefaultG28 ==
    G28Value("obj",
             ObjectWith(AttorneyFields, "null", "fax", JNull),
             ObjectWith(EligibilityFields, "null", "bar_number", JNull),
             DefaultClient)

NoG28(kind) ==
    G28Value(kind, NonObject(AttorneyFields, "missing"),
             NonObject(EligibilityFields, "missing"),
             NonObject(ClientFields, "missing"))

G28Values ==
    { NoG28(k) : k \in NonObjectKinds }
    \cup { G28Value("obj", a, e, DefaultClient) :
             a \in AttorneyValues, e \in EligibilityValues }
    \cup { G28Value("obj", DefaultG28.attorney, DefaultG28.eligibility, c) :
             c \in ClientValues }

DefaultDoc == JsonDoc("obj", DefaultPassport, DefaultG28)

JsonDocs ==
    { JsonDoc(k, NonObject(PassportFields, "missing"), NoG28("missing")) :
        k \in {"null", "num", "str", "list"} }
    \cup { JsonDoc("obj", p, DefaultG28) : p \in PassportValues }
    \cup { JsonDoc("obj", DefaultPassport, g) : g \in G28Values }
    \cup { JsonDoc("obj", p, NoG28("missing")) :
             p \in { NonObject(PassportFields, "missing"),
                     ObjectWith(PassportFields, "str", "surname", JStr(<<"v">>)) } }

\* The serialised JSON text of the payload, as one token of the response
\* text: it starts and ends with a JSON character, never with whitespace or
\* a backquote.
Body == "<json>"

\* The character U+0060, which a string literal of the module cannot hold.
Backquote == "BQ"

Fence == <<Backquote, Backquote, Backquote>>

FenceJson == <<Backquote, Backquote, Backquote, "j", "s", "o", "n">>

\* J: the JSON text alone, with or without blank space around it.
JsonTexts == { l \o <<Body>> \o r : l, r \in {<<>>, <<"\n">>} }

\* J inside a code fence, tagged json or not.
Fenced(open, a, J, b) == a \o open \o J \o Fence \o b

FencedTexts ==
    { Fenced(open, a, J, b) :
        open \in {Fence, FenceJson}, a \in {<<>>, <<" ">>}, J \in JsonTexts,
        b \in {<<>>, <<"\n">>} }

\* Responses that carry the payload inside something else.
OtherTexts ==
    { FenceJson \o <<"\n", Body>>,
      <<Body, "\n">> \o Fence,
      <<Backquote, Backquote, Backquote, "J", "S", "O", "N", "\n">> \o <<Body, "\n">> \o Fence,
      <<"H", "e", "r", "e", ":", " ">> \o <<Body>>,
      <<Body, "\n", Body>> }

\* Responses with no JSON in them.
ExcerptLen == 500

ProseTexts ==
    { <<>>, <<"S", "o", "r", "r", "y">>, FenceJson \o <<"\n">> \o Fence, Rep("x", ExcerptLen + 1) }

\* ---- str.lower and the error texts

Uppers == <<"A", "B", "C", "D", "E", "F", "G", "H", "I", "J", "K", "L", "M", "N", "O", "P", "Q", "R", "S", "T", "U", "V", "W", "X", "Y", "Z">>

Lowers == <<"a", "b", "c", "d", "e", "f", "g", "h", "i", "j", "k", "l", "m", "n", "o", "p", "q", "r", "s", "t", "u", "v", "w", "x", "y", "z">>

LowerChar(c) ==
    IF \E i \in 1..26 : Uppers[i] = c
    THEN Lowers[CHOOSE i \in 1..26 : Uppers[i] = c]
    ELSE c

\* str.lower()
Lower(s) == [i \in 1..Len(s) |-> LowerChar(s[i])]

ErrorFragments ==
    { <<"A", "P", "I", " ", "k", "e", "y">>, <<"a", "p", "i", " ", "k", "e", "y">>, <<"A", "p", "i", " ", "K", "e", "y">>,
      <<"a", "u", "t", "h", "e", "n", "t", "i", "c", "a", "t", "i", "o", "n">>, <<"A", "u", "t", "h", "e", "n", "t", "i", "c", "a", "t", "i", "o", "n">>,
      <<"q", "u", "o", "t", "a">>, <<"Q", "U", "O", "T", "A">>,
      <<"r", "a", "t", "e", " ", "l", "i", "m", "i", "t">>, <<"R", "a", "t", "e", " ", "L", "i", "m", "i", "t">>,
      <<"m", "o", "d", "e", "l">>, <<"M", "o", "d", "e", "l">>,
      <<"t", "i", "m", "e", "o", "u", "t">> }

\* str(e) of an exception raised by the remote call.
ErrorTexts ==
    ErrorFragments
    \cup { a \o <<":", " ">> \o b : a, b \in ErrorFragments }

\* ---- datetime.strptime(s, '%Y-%m-%d').date()

RECURSIVE Split(_, _)
\* s.split(c)
Split(s, c) ==
    IF \E i \in 1..Len(s) : s[i] = c
    THEN LET i == CHOOSE k \in 1..Len(s) : s[k] = c /\ \A j \in 1..(k - 1) : s[j] /= c
         IN  <<SubSeq(s, 1, i - 1)>> \o Split(SubSeq(s, i + 1, Len(s)), c)
    ELSE <<s>>

IsDigit(c) == \E i \in 1..10 : Digits[i] = c

DigitValue(c) == (CHOOSE i \in 1..10 : Digits[i] = c) - 1

IsNumber(p) == p /= <<>> /\ \A i \in 1..Len(p) : IsDigit(p[i])

RECURSIVE IntValue(_)
IntValue(p) ==
    IF p = <<>> THEN 0
    ELSE 10 * IntValue(SubSeq(p, 1, Len(p) - 1)) + DigitValue(p[Len(p)])

IsLeap(y) == (y % 4 = 0 /\ y % 100 /= 0) \/ y % 400 = 0

DaysInMonth(y, m) ==
    IF m = 2 THEN (IF IsLeap(y) THEN 29 ELSE 28)
    ELSE IF m \in {4, 6, 9, 11} THEN 30
    ELSE 31

\* [ok, date]: %Y is four digits, %m and %d one or two; the date must exist.
strptime(s) ==
    LET parts == Split(s, "-")
        shaped == /\ Len(parts) = 3
                  /\ \A i \in 1..3 : IsNumber(parts[i])
                  /\ Len(parts[1]) = 4
                  /\ Len(parts[2]) \in {1, 2}
                  /\ Len(parts[3]) \in {1, 2}
    IN  IF ~shaped THEN [ok |-> FALSE, date |-> NoDate]
        ELSE LET y == IntValue(parts[1])
                 m == IntValue(parts[2])
                 d == IntValue(parts[3])
             IN  IF y >= 1 /\ m \in 1..12 /\ d >= 1 /\ d <= DaysInMonth(y, m)
                 THEN [ok |-> TRUE, date |-> <<y, m, d>>]
                 ELSE [ok |-> FALSE, date |-> NoDate]

\* ---- exceptions and messages

\* A message is a sequence of segments: a fixed wording ("lit"), the JSON
\* parser's diagnostic ("diag"), or text copied from a value ("text").
Seg(kind, val) == [kind |-> kind, val |-> val]

Lit(w) == Seg("lit", <<w>>)

TextSeg(t) == Seg("text", t)

\* str(json_err): what the parser expected and where, e.g.
\* "Expecting value: line 1 column 1 (char 0)".
Diagnostic == Seg("diag", <<"JSONDecodeError">>)

Exc(type, category, msg) == [type |-> type, category |-> category, msg |-> msg]

NoExc == Exc("none", "none", <<>>)

\* ValueError and the library exceptions derived from it.
IsValueError(type) == type \in {"ValueError", "JSONDecodeError", "ValidationError"}

InvalidJsonWording == "Gemini API returned invalid JSON format. JSON parsing error: "

\* A message that leaves the parser's diagnostic out.
InvalidJsonMessageBare == <<Lit(InvalidJsonWording)>>

\* Lines 128-131.
InvalidJsonMessage == <<Lit(InvalidJsonWording), Diagnostic>>

\* Lines 126-127: the two error records written before raising.
InvalidJsonLog(response_text) ==
    << <<Lit("Failed to parse JSON from Gemini response: "), Diagnostic>>,
       <<Lit("Response text (first 500 chars): "),
         TextSeg(SubSeq(response_text, 1,
                        IF Len(response_text) < ExcerptLen
                        THEN Len(response_text) ELSE ExcerptLen))>> >>

PyTypeName(kind) ==
    IF kind = "null" THEN <<"N", "o", "n", "e", "T", "y", "p", "e">>
    ELSE IF kind = "num" THEN <<"i", "n", "t">>
    ELSE IF kind = "str" THEN <<"s", "t", "r">>
    ELSE <<"l", "i", "s", "t">>

\* AttributeError raised by x.get(...) / x.strip() on something that has none.
AttributeError(kind, attr) ==
    Exc("AttributeError", "raw",
        <<TextSeg(<<"'">> \o PyTypeName(kind) \o <<"'", " ", "o", "b", "j", "e", "c", "t", " ", "h", "a", "s", " ", "n", "o", " ", "a", "t", "t", "r", "i", "b", "u", "t", "e", " ", "'">>
                  \o attr \o <<"'">>)>>)

\* An exception of the remote client library.
RemoteError(t) == Exc("RemoteError", "raw", <<TextSeg(t)>>)

\* response.text refusing to give a text (the candidate was blocked).
BlockedError == Exc("ValueError", "blocked", <<Lit("response.text is not available")>>)

\* pydantic's ValidationError, a ValueError.
ValidationError(model) ==
    Exc("ValidationError", "validation", <<Lit("validation error for "), Lit(model)>>)

\* str(e) of an exception that is not a ValueError.
ErrorMsg(e) == e.msg[1].val

\* ---- lines 113-120: the code fence is taken off

\* Only the opening marker is taken off.
StripFencesOpenOnly(t) ==
    LET s0 == Strip(t)
        s1 == IF StartsWith(s0, Fence) THEN SubSeq(s0, 4, Len(s0)) ELSE s0
        s2 == IF EndsWith(s1, Fence) THEN SubSeq(s1, 1, Len(s1) - 3) ELSE s1
    IN  Strip(s2)

StripFences(t) ==
    LET s0 == Strip(t)
        s1 == IF StartsWith(s0, FenceJson) THEN SubSeq(s0, 8, Len(s0)) ELSE s0
        s2 == IF StartsWith(s1, Fence) THEN SubSeq(s1, 4, Len(s1)) ELSE s1
        s3 == IF EndsWith(s2, Fence) THEN SubSeq(s2, 1, Len(s2) - 3) ELSE s2
    IN  Strip(s3)

\* json.loads: the text parses when it is exactly one JSON text.
JsonParses(response_text) == response_text = <<Body>>

\* ---- lines 133-148: the passport record

\* A lookup without the default: data["passport"].
GetOrMissing(F, m) == m

\* dict.get(key, {}) of line 134 and line 152.
GetOrEmpty(F, m) == IF m.kind = "missing" THEN EmptyDict(F) ELSE m

\* Lines 138-146 for one date field.
ConvertDate(leaf) ==
    IF leaf.kind = "str" /\ leaf.s /= <<>>
    THEN (IF strptime(leaf.s).ok THEN DateLeaf(strptime(leaf.s).date) ELSE JNull)
    ELSE leaf

ConvertDates(fields) ==
    [f \in DOMAIN fields |-> IF f \in DateFields THEN ConvertDate(fields[f]) ELSE fields[f]]

\* The values a record field holds.
Absent == Leaf("absent", <<>>, NoDate)

StrValue(s) == Leaf("str", s, NoDate)

BoolValue(b) == Leaf(IF b THEN "true" ELSE "false", <<>>, NoDate)

EpochDate == <<1970, 1, 1>>

FieldType(f) ==
    IF f \in DateFields THEN "date" ELSE IF f \in BoolFields THEN "bool" ELSE "str"

\* pydantic's validation of one Optional field: [ok, value].  A number is
\* coerced (to its digits, to a date counted from the epoch) by a lax
\* validator and rejected by a strict one.
ValidateField(type, leaf, lax) ==
    IF leaf.kind \in {"missing", "null"} THEN [ok |-> TRUE, value |-> Absent]
    ELSE IF type = "str" /\ leaf.kind = "str" THEN [ok |-> TRUE, value |-> StrValue(leaf.s)]
    ELSE IF type = "str" /\ leaf.kind = "num" /\ lax THEN [ok |-> TRUE, value |-> StrValue(<<"0">>)]
    ELSE IF type = "date" /\ leaf.kind = "date" THEN [ok |-> TRUE, value |-> leaf]
    ELSE IF type = "date" /\ leaf.kind = "num" /\ lax THEN [ok |-> TRUE, value |-> DateLeaf(EpochDate)]
    ELSE IF type = "bool" /\ leaf.kind \in {"true", "false"} THEN [ok |-> TRUE, value |-> leaf]
    ELSE [ok |-> FALSE, value |-> Absent]

\* Model(**fields): [ok, rec].
Validate(fields, lax) ==
    [ok  |-> \A f \in DOMAIN fields : ValidateField(FieldType(f), fields[f], lax).ok,
     rec |-> [f \in DOMAIN fields |-> ValidateField(FieldType(f), fields[f], lax).value]]

AllAbsent(F) == [f \in F |-> Absent]

\* An Optional group of G28Data: None, or the validated record.
Group(present, rec) == [present |-> present, rec |-> rec]

\* A dict is truthy when it has a key.
TruthyDict(m) == m.kind = "obj" /\ \E f \in DOMAIN m.fields : m.fields[f].kind /= "missing"

\* What extract_data does with the parsed data: [exc, passport_data, g28_data].
Built(exc, passport_data, g28_data) ==
    [exc |-> exc, passport_data |-> passport_data, g28_data |-> g28_data]

\* A local that is not bound: no value has been assigned to it.
Unset == [kind |-> "unset"]

Failed(exc) == Built(exc, Unset, Unset)

\* Lines 153-155 for one group.
BuildGroup(F, m, lax) ==
    IF TruthyDict(m) THEN Group(TRUE, Validate(m.fields, lax).rec)
    ELSE Group(FALSE, AllAbsent(F))

GroupOk(m, lax) == TruthyDict(m) => Validate(m.fields, lax).ok

\* Lines 151-161.
BuildG28(passport_data, data, lax) ==
    LET g28_dict == IF data.g28.kind = "missing" THEN NoG28("obj") ELSE data.g28
    IN  IF g28_dict.kind /= "obj" THEN Failed(AttributeError(g28_dict.kind, <<"g", "e", "t">>))
        ELSE IF ~GroupOk(g28_dict.attorney, lax) THEN Failed(ValidationError("AttorneyInfo"))
        ELSE IF ~GroupOk(g28_dict.eligibility, lax) THEN Failed(ValidationError("EligibilityInfo"))
        ELSE IF ~GroupOk(g28_dict.client, lax) THEN Failed(ValidationError("ClientInfo"))
        ELSE Built(NoExc, passport_data,
                   [attorney |-> BuildGroup(AttorneyFields, g28_dict.attorney, lax),
                    eligibility |-> BuildGroup(EligibilityFields, g28_dict.eligibility, lax),
                    client |-> BuildGroup(ClientFields, g28_dict.client, lax)])

\* Lines 133-170.
Build(data, lax) ==
    IF data.top /= "obj" THEN Failed(AttributeError(data.top, <<"g", "e", "t">>))
    ELSE LET passport_dict == GetOrEmpty(PassportFields, data.passport)
         IN  IF passport_dict.kind /= "obj"
             THEN Failed(AttributeError(passport_dict.kind, <<"g", "e", "t">>))
             ELSE LET converted == ConvertDates(passport_dict.fields)
                  IN  IF ~Validate(converted, lax).ok
                      THEN Failed(ValidationError("PassportData"))
                      ELSE BuildG28(Validate(converted, lax).rec, data, lax)

\* ---- lines 172-199: the handlers

\* "API key" is looked for in the text as it is, the other patterns in the
\* lower-cased text.
Classify(error_msg) ==
    IF Contains(error_msg, <<"A", "P", "I", " ", "k", "e", "y">>) \/ Contains(Lower(error_msg), <<"a", "u", "t", "h", "e", "n", "t", "i", "c", "a", "t", "i", "o", "n">>)
    THEN "auth"
    ELSE IF Contains(Lower(error_msg), <<"q", "u", "o", "t", "a">>) \/ Contains(Lower(error_msg), <<"r", "a", "t", "e", " ", "l", "i", "m", "i", "t">>)
    THEN "quota"
    ELSE IF Contains(Lower(error_msg), <<"m", "o", "d", "e", "l">>)
    THEN "model"
    ELSE "generic"

CategoryMessage(category, error_msg) ==
    IF category = "auth"
    THEN <<Lit("Gemini API authentication failed. Please verify your GEMINI_API_KEY in .env file.")>>
    ELSE IF category = "quota"
    THEN <<Lit("Gemini API quota exceeded or rate limit reached. Please try again later.")>>
    ELSE IF category = "model"
    THEN <<Lit("Invalid Gemini model name: "), Lit("GEMINI_MODEL_NAME"),
           Lit(". Please check GEMINI_MODEL_NAME in .env file.")>>
    ELSE <<Lit("LLM extraction error: "), TextSeg(error_msg),
           Lit(". Please check your API key and model configuration.")>>

\* A handler that wraps only what it recognises and lets the rest through.
HandleKnownOnly(e) ==
    IF IsValueError(e.type) THEN e
    ELSE IF Classify(ErrorMsg(e)) = "generic" THEN e
    ELSE Exc("ValueError", Classify(ErrorMsg(e)),
             CategoryMessage(Classify(ErrorMsg(e)), ErrorMsg(e)))

\* The exception that leaves extract_data when e was raised inside the try.
Handle(e) ==
    IF IsValueError(e.type) THEN e
    ELSE Exc("ValueError", Classify(ErrorMsg(e)),
             CategoryMessage(Classify(ErrorMsg(e)), ErrorMsg(e)))

\* --------------------------------------------------------- app.py, validators.py

\* The requests that are in the server at the same time.
Requests == {"r1", "r2"}

\* UploadFile.filename of an uploaded part.
Filenames ==
    { None, Some(<<>>), Some(<<"d", "o", "c", ".", "t", "x", "t">>), Some(<<"p", "d", "f">>), Some(<<"p", ".", "p", "d", "f">>), Some(<<"s", ".", "J", "P", "G">>) }

\* datetime.now().strftime("%Y%m%d_%H%M%S"): two requests fall in the same
\* second or in different ones.
Timestamps == { <<"2", "0", "2", "4", "0", "1", "0", "1", "_", "1", "2", "0", "0", "0", "0">>, <<"2", "0", "2", "4", "0", "1", "0", "1", "_", "1", "2", "0", "0", "0", "1">> }

valid_extensions == { <<".", "p", "d", "f">>, <<".", "j", "p", "g">>, <<".", "j", "p", "e", "g">>, <<".", "p", "n", "g">> }

\* s[-1] of a non-empty list
Last(s) == s[Len(s)]

\* config.py line 17: the default of MAX_FILE_SIZE_MB.
MAX_FILE_SIZE_MB == 20

\* The size of an uploaded part in megabytes: within the limit, and above it.
Sizes == { 1, MAX_FILE_SIZE_MB + 1 }

\* An UploadFile: its filename and the size of its content.
UploadFile(filename, size) == [filename |-> filename, size |-> size]

\* The uploaded parts: every file name with a small content, and a PDF above
\* the limit.
Uploads ==
    { UploadFile(n, 1) : n \in Filenames }
        \cup { UploadFile(Some(<<"p", ".", "p", "d", "f">>), s) : s \in Sizes }

\* validate_upload: the ValueError it raises, or NoExc.  max_size_mb is not
\* read anywhere in the function, nor is the size of the file.
validate_upload(file, max_size_mb) ==
    IF ~Truthy(file.filename)
    THEN Exc("ValueError", "validation", <<Lit("No file uploaded")>>)
    ELSE LET file_ext == Last(Split(Lower(file.filename.val), "."))
         IN  IF (<<".">> \o file_ext) \notin valid_extensions
             THEN Exc("ValueError", "validation",
                      <<Lit("Invalid file type: ."), TextSeg(file_ext),
                        Lit(". Supported formats: PDF, JPEG, PNG")>>)
             ELSE NoExc

\* UPLOADS_DIR / f"{kind}_{timestamp}_{filename}": the name of the stored file.
UploadPath(kind, stamp, filename) == kind \o <<"_">> \o stamp \o <<"_">> \o filename

\* Path(name).suffix.lower(): from the last dot on, when there is a dot that
\* is neither the first nor the last character of the name.
Suffix(name) ==
    LET dots == { i \in 2..(Len(name) - 1) : name[i] = "." }
    IN  IF dots = {} \/ name[Len(name)] = "." THEN <<>>
        ELSE Lower(SubSeq(name, CHOOSE i \in dots : \A j \in dots : j <= i, Len(name)))

\* The suffixes the two acquisition functions take up.
Supported(path) == Suffix(path) \in valid_extensions

\* What an acquisition function can give back for a file it can take up:
\* nothing, an empty text, a text.
AcquiredTexts == { None, Some(<<>>), Some(<<"t", "e", "x", "t">>) }

\* `if not passport_text` taken for `if passport_text is None`.
ObtainedNotNone(text_value) == ~text_value.none

\* Lines 139 and 154: `if not passport_text`, `if not g28_text`.
Obtained(text_value) == Truthy(text_value)

\* A JSON response of the endpoint.
Reply(status, message) == [status |-> status, message |-> message]

NoReply == Reply("none", "none")

\* populate_form's result: result["success"] and result["screenshot_path"].
FillResult(success, screenshot) == [success |-> success, screenshot |-> screenshot]

NoResult == FillResult(FALSE, FALSE)

\* _fill_page filled something, filled nothing, or the browser run raised.
FillResults == { FillResult(TRUE, TRUE), FillResult(FALSE, TRUE), FillResult(FALSE, FALSE) }

\* --------------------------------------------------------- data_mapper.py

\* One assignment fields[id] = value.
Assign(id, value) == [id |-> id, value |-> value]

\* The dict after the assignments, made in order: a later one replaces an
\* earlier one with the same key.
RECURSIVE Dict(_)
Dict(assignments) ==
    IF assignments = <<>> THEN <<>>
    ELSE LET before == Dict(SubSeq(assignments, 1, Len(assignments) - 1))
             a == assignments[Len(assignments)]
         IN  [k \in DOMAIN before \cup {a.id} |-> IF k = a.id THEN a.value ELSE before[k]]

\* Lines 27-29: val if val is not None else "".
get_value(val) == IF val.kind = "absent" THEN <<>> ELSE val.s

\* n written with at least w digits.
Pad(n, w) == Rep("0", w - Len(IntStr(n))) \o IntStr(n)

\* str(date): the ISO form YYYY-MM-DD.
IsoDate(d) == Pad(d[1], 4) \o <<"-">> \o Pad(d[2], 2) \o <<"-">> \o Pad(d[3], 2)

\* Lines 38, 41, 42: str(d) if d else "".
date_value(val) == IF val.kind = "date" THEN IsoDate(val.date) ELSE <<>>

\* The text before the first space, and the text after it.
FirstWord(s) == Split(s, " ")[1]

RestWords(s) == SubSeq(s, Len(FirstWord(s)) + 2, Len(s))

\* A mapper that splits the given names itself and fills the second slot
\* from them when there is no middle name.
PassportAssignmentsSplit(p) ==
    << Assign("passport-surname", get_value(p.surname)),
       Assign("passport-given-names", FirstWord(get_value(p.given_names))),
       Assign("passport-middle-name",
              IF p.middle_names.kind = "absent"
              THEN RestWords(get_value(p.given_names))
              ELSE get_value(p.middle_names)),
       Assign("passport-number", get_value(p.passport_number)),
       Assign("passport-country", get_value(p.country_of_issue)),
       Assign("passport-nationality", get_value(p.nationality)),
       Assign("passport-dob", date_value(p.date_of_birth)),
       Assign("passport-pob", get_value(p.place_of_birth)),
       Assign("passport-sex", get_value(p.sex)),
       Assign("passport-issue-date", date_value(p.issue_date)),
       Assign("passport-expiry-date", date_value(p.expiry_date)) >>

\* Lines 32-42.
PassportAssignments(p) ==
    << Assign("passport-surname", get_value(p.surname)),
       Assign("passport-given-names", get_value(p.given_names)),
       Assign("passport-middle-name", get_value(p.middle_names)),
       Assign("passport-number", get_value(p.passport_number)),
       Assign("passport-country", get_value(p.country_of_issue)),
       Assign("passport-nationality", get_value(p.nationality)),
       Assign("passport-dob", date_value(p.date_of_birth)),
       Assign("passport-pob", get_value(p.place_of_birth)),
       Assign("passport-sex", get_value(p.sex)),
       Assign("passport-issue-date", date_value(p.issue_date)),
       Assign("passport-expiry-date", date_value(p.expiry_date)) >>

\* Lines 45-56: nothing when g28_data.attorney is None.
AttorneyAssignments(attorney) ==
    IF ~attorney.present THEN <<>>
    ELSE << Assign("online-account", get_value(attorney.rec.online_account)),
            Assign("family-name", get_value(attorney.rec.last_name)),
            Assign("given-name", get_value(attorney.rec.first_name)),
            Assign("middle-name", get_value(attorney.rec.middle_name)),
            Assign("street-number", get_value(attorney.rec.street)),
            Assign("city", get_value(attorney.rec.city)),
            Assign("state", get_value(attorney.rec.state)),
            Assign("zip", get_value(attorney.rec.zip)),
            Assign("country", get_value(attorney.rec.country)),
            Assign("daytime-phone", get_value(attorney.rec.phone)),
            Assign("email", get_value(attorney.rec.email)) >>

\* Lines 59-62: nothing when g28_data.eligibility is None.
EligibilityAssignments(eligibility) ==
    IF ~eligibility.present THEN <<>>
    ELSE << Assign("licensing-authority", get_value(eligibility.rec.licensing_authority)),
            Assign("bar-number", get_value(eligibility.rec.bar_number)),
            Assign("law-firm", get_value(eligibility.rec.law_firm)) >>

\* What a mapper call ends with: the exception it raised, or the dict.
Mapped(raised_exc, dict) == [exc |-> raised_exc, dict |-> dict]

\* Lines 7-67.
map_to_form_fields(p, g) ==
    Mapped(NoExc,
           Dict(PassportAssignments(p) \o AttorneyAssignments(g.attorney)
                \o EligibilityAssignments(g.eligibility)))

\* `if value:` in the place of `if value is not None`.
IsSetTruthy(val) == val.kind = "true"

\* Line 83: is_not_subject_to_orders is not None.
IsSet(val) == val.kind /= "absent"

\* The attribute is read without asking whether the group is there.
get_checkbox_fields_unguarded(g) ==
    IF ~g.eligibility.present
    THEN Mapped(AttributeError("null", <<"i", "s", "_", "n", "o", "t", "_", "s", "u", "b", "j", "e", "c", "t", "_", "t", "o", "_", "o", "r", "d", "e", "r", "s">>), <<>>)
    ELSE IF IsSet(g.eligibility.rec.is_not_subject_to_orders)
    THEN Mapped(NoExc,
                Dict(<<Assign("not-subject",
                              g.eligibility.rec.is_not_subject_to_orders.kind = "true")>>))
    ELSE Mapped(NoExc, <<>>)

\* Lines 69-86.
get_checkbox_fields(g) ==
    IF g.eligibility.present /\ IsSet(g.eligibility.rec.is_not_subject_to_orders)
    THEN Mapped(NoExc,
                Dict(<<Assign("not-subject",
                              g.eligibility.rec.is_not_subject_to_orders.kind = "true")>>))
    ELSE Mapped(NoExc, <<>>)

\* ---- the records the mapper is called with

\* A value that names the field it stands in, so that it can be told apart
\* from every other value in the output.
FieldText(group, f) == <<group, ".", f>>

DateOf(f) ==
    IF f = "date_of_birth" THEN <<1990, 2, 3>>
    ELSE IF f = "issue_date" THEN <<2020, 1, 15>>
    ELSE <<2030, 1, 15>>

FieldValue(group, f) ==
    IF group = "passport" /\ f \in DateFields THEN DateLeaf(DateOf(f))
    ELSE IF f \in BoolFields THEN BoolValue(TRUE)
    ELSE StrValue(FieldText(group, f))

\* The record of the group with the fields in S set and the others None.
RecordWith(group, F, S) == [f \in F |-> IF f \in S THEN FieldValue(group, f) ELSE Absent]

\* No field, every field, one field, every field but one.
PresenceSets(F) == {{}, F} \cup {{f} : f \in F} \cup {F \ {f} : f \in F}

GivenNames == { <<"J", "o", "h", "n">>, <<"J", "o", "h", "n", " ", "P", "a", "u", "l">> }

MiddleNames == { Absent, StrValue(<<>>), StrValue(<<"Q">>) }

PassportRecords ==
    { RecordWith("passport", PassportFields, S) : S \in PresenceSets(PassportFields) }
    \cup { [RecordWith("passport", PassportFields, {})
               EXCEPT !.given_names = StrValue(gn), !.middle_names = mn] :
             gn \in GivenNames, mn \in MiddleNames }

NoGroup(F) == Group(FALSE, AllAbsent(F))

AttorneyGroups ==
    { NoGroup(AttorneyFields) }
    \cup { Group(TRUE, RecordWith("attorney", AttorneyFields, S)) :
             S \in PresenceSets(AttorneyFields) }

EligibilityGroups ==
    { NoGroup(EligibilityFields) }
    \cup { Group(TRUE, [RecordWith("eligibility", EligibilityFields, S)
                           EXCEPT !.is_not_subject_to_orders = b]) :
             S \in {{}, EligibilityFields}, b \in {Absent, BoolValue(TRUE), BoolValue(FALSE)} }

ClientGroups ==
    { NoGroup(ClientFields), Group(TRUE, RecordWith("client", ClientFields, ClientFields)) }

G28Records ==
    { [attorney |-> a, eligibility |-> e, client |-> c] :
        a \in AttorneyGroups, e \in EligibilityGroups, c \in ClientGroups }

\* --------------------------------------------------------- form_filler.py, config.py

\* os.getenv("HEADLESS_MODE"): unset, or the text it is set to.
HeadlessEnv == { None, Some(<<"t", "r", "u", "e">>), Some(<<"T", "r", "u", "e">>), Some(<<"f", "a", "l", "s", "e">>) }

\* config.py line 16: os.getenv("HEADLESS_MODE", "false").lower() == "true".
HeadlessMode(env) == Lower(IF env.none THEN <<"f", "a", "l", "s", "e">> ELSE env.val) = <<"t", "r", "u", "e">>

\* The page of the form: whether it loads, how many elements each id
\* selects, the ids whose element raises when it is touched, and whether the
\* screenshot can be taken.
Page(loads, matches, raising, shoots) ==
    [loads |-> loads, matches |-> matches, raising |-> raising, shoots |-> shoots]

\* A locator: the id it selects by and the index given to nth(), -1 for none.
Locator(selector, nth) == [selector |-> selector, nth |-> nth]

\* Lines 30-35 and 57: the element a field id stands for.
Element(field_id) ==
    IF field_id = "passport-given-names" THEN Locator("passport-given-names", 0)
    ELSE IF field_id = "passport-middle-name" THEN Locator("passport-given-names", 1)
    ELSE Locator(field_id, -1)

\* document.querySelectorAll: the number of elements with the id.
Matches(page, selector) ==
    IF selector \in DOMAIN page.matches THEN page.matches[selector] ELSE 0

\* element.count()
Count(page, element) ==
    IF element.nth = -1 THEN Matches(page, element.selector)
    ELSE IF element.nth < Matches(page, element.selector) THEN 1 ELSE 0

\* The two lists of _fill_page, and the elements it has asked the page for.
Lists(filled_fields, failed_fields, located) ==
    [filled_fields |-> filled_fields, failed_fields |-> failed_fields,
     located |-> located]

\* Lines 28-51 and 56-68: one field or checkbox is tried and its id appended
\* to one of the two lists.
Attempt(page, element, field_id, lists) ==
    IF field_id \notin page.raising /\ Count(page, element) > 0
    THEN Lists(Append(lists.filled_fields, field_id), lists.failed_fields,
               Append(lists.located, element))
    ELSE Lists(lists.filled_fields, Append(lists.failed_fields, field_id),
               Append(lists.located, element))

RECURSIVE FieldLoop(_, _, _, _)
\* A loop that does not pass over the empty values.
FieldLoopNoSkip(page, items, i, lists) ==
    IF i > Len(items) THEN lists
    ELSE FieldLoop(page, items, i + 1,
                   Attempt(page, Element(items[i].id), items[i].id, lists))

\* Lines 25-51: the loop over fields.items(), from entry i on.
FieldLoop(page, items, i, lists) ==
    IF i > Len(items) THEN lists
    ELSE IF items[i].value = <<>> THEN FieldLoop(page, items, i + 1, lists)
    ELSE FieldLoop(page, items, i + 1,
                   Attempt(page, Element(items[i].id), items[i].id, lists))

\* Lines 55-68: the loop over checkboxes.items(), from entry i on.
RECURSIVE CheckboxLoop(_, _, _, _)
CheckboxLoop(page, items, i, lists) ==
    IF i > Len(items) THEN lists
    ELSE CheckboxLoop(page, items, i + 1,
                      Attempt(page, Locator(items[i].id, -1), items[i].id, lists))

\* `len(failed_fields) == 0` in the place of `len(filled_fields) > 0`.
SuccessNoFailure(lists) == Len(lists.failed_fields) = 0

\* Line 82: len(filled_fields) > 0.
Success(lists) == Len(lists.filled_fields) > 0

\* The dict that _fill_page and populate_form return.
Report(success, lists, screenshot_path, pdf_path, error) ==
    [success |-> success,
     total_filled |-> Len(lists.filled_fields),
     total_failed |-> Len(lists.failed_fields),
     filled_fields |-> lists.filled_fields,
     failed_fields |-> lists.failed_fields,
     screenshot_path |-> screenshot_path,
     pdf_path |-> pdf_path,
     error |-> error]

\* What _fill_page ends with: the exception it raised, or its dict; and the
\* elements it has asked the page for.
Filled(raised_exc, report, located) ==
    [exc |-> raised_exc, report |-> report, located |-> located]

PlaywrightError == Exc("Error", "playwright", <<Lit("playwright")>>)

\* Lines 123-135: the dict of the except branch.
FailureReport ==
    Report(FALSE, Lists(<<>>, <<>>, <<>>), None, None, Some(<<"F", "o", "r", "m", " ", "p", "o", "p", "u", "l", "a", "t", "i", "o", "n", " ", "f", "a", "i", "l", "e", "d">>))

\* Lines 11-90.
fill_page(page, items, boxes, generate_pdf) ==
    IF ~page.loads THEN Filled(PlaywrightError, FailureReport, <<>>)
    ELSE LET lists == CheckboxLoop(page, boxes, 1,
                                   FieldLoop(page, items, 1, Lists(<<>>, <<>>, <<>>)))
         IN  IF ~page.shoots THEN Filled(PlaywrightError, FailureReport, lists.located)
             ELSE Filled(NoExc,
                         Report(Success(lists), lists,
                                Some(<<"u", "p", "l", "o", "a", "d", "s", "/", "f", "o", "r", "m", "_", "p", "o", "p", "u", "l", "a", "t", "e", "d", ".", "p", "n", "g">>),
                                IF generate_pdf THEN Some(<<"u", "p", "l", "o", "a", "d", "s", "/", "f", "o", "r", "m", "_", "f", "i", "l", "l", "e", "d", ".", "p", "d", "f">>)
                                ELSE None,
                                None),
                         lists.located)

\* --------------------------------------------------------- populate_form: inputs

\* How many times populate_form is called in the process.
MaxFills == 2

\* A value the mapper gives a field: the empty string, or a text.
FormValues == { <<>>, <<"v">> }

\* fields.items(): the empty dict, and three passport fields in the order
\* map_to_form_fields inserts them.
FormItems ==
    { <<>> } \cup
    { << Assign("passport-surname", a), Assign("passport-given-names", b),
         Assign("passport-middle-name", c) >> : a \in FormValues, b \in FormValues,
                                                 c \in FormValues }

\* checkboxes.items()
FormBoxes == { <<>> } \cup { << Assign("not-subject", b) >> : b \in BOOLEAN }

\* The number of elements the page has for each id.
PageMatches ==
    { [id \in {"passport-surname", "passport-given-names", "not-subject"} |->
          IF id = "passport-surname" THEN a
          ELSE IF id = "passport-given-names" THEN b ELSE c] :
      a \in 0..1, b \in 0..2, c \in 0..1 }

\* The pages the browser can meet.
Pages ==
    { Page(TRUE, m, raising, TRUE) :
        m \in PageMatches, raising \in { {}, {"passport-surname"} } }
    \cup { Page(FALSE, m, {}, TRUE) : m \in PageMatches }
    \cup { Page(TRUE, m, {}, FALSE) : m \in PageMatches }

\* ------------------------------------------------------------------ state

\* extract_text_from_pdf_or_image and extract_passport_text_with_gemini
VARIABLES
    pc,          \* position inside the running acquisition function
    fn,          \* which function runs: "gemini" or "local"
    doc,         \* file_path: the stored file being read
    text,        \* local `text`: the embedded text of a PDF
    response,    \* local `response` of the remote transcription call
    page_count,  \* local `page_count`
    page_num,    \* local `page_num` of the OCR loop
    page_texts,  \* local `page_texts`
    results,     \* what ocr.ocr() returned to the last extract_text_from_image
    ret,         \* the value the function returned
    effects,     \* the calls made so far to the PDF library, the OCR engine and the remote service
    ocr_reader,  \* module global _ocr_reader
    ocr_builds,  \* how many times PaddleOCR(...) completed in this process
    calls        \* acquisition calls started in this process

acqVars ==
    <<pc, fn, doc, text, response, page_count, page_num, page_texts, results,
      ret, effects, ocr_reader, ocr_builds, calls>>

\* extract_data
VARIABLES
    x_pc,           \* position inside extract_data
    raw,            \* response.text as the remote model returned it
    payload,        \* the JSON value the Body token of raw stands for
    lax,            \* whether the installed validator coerces numbers
    response_text,  \* local `response_text` after the fence is taken off
    data,           \* local `data`
    passport_data,  \* first component of the returned tuple
    g28_data,       \* second component of the returned tuple
    exc,            \* the exception raised inside the try block
    raised,         \* the exception that left extract_data
    log             \* records written with logger.error

xVars ==
    <<x_pc, raw, payload, lax, response_text, data, passport_data, g28_data,
      exc, raised, log>>

\* process_documents, one entry per request
VARIABLES
    p_pc,           \* position of the request's coroutine
    passport_name,  \* passport_file.filename
    g28_name,       \* g28_file.filename
    passport_size,  \* megabytes in the passport upload
    g28_size,       \* megabytes in the G-28 upload
    passport_path,  \* local `passport_path`: None or the stored file's name
    g28_path,       \* local `g28_path`
    passport_text,  \* local `passport_text`
    g28_text,       \* local `g28_text`
    extraction,     \* how extract_data ended for the request
    fill,           \* local `result` of populate_form
    reply,          \* the response returned to the client
    trace,          \* the stage functions the request has called, in order
    files,          \* the files that exist under uploads/
    screenshot,     \* the request whose fill wrote uploads/form_populated.png last
    loop            \* the request whose coroutine the event loop is running

pVars ==
    <<p_pc, passport_name, g28_name, passport_size, g28_size, passport_path, g28_path, passport_text,
      g28_text, extraction, fill, reply, trace, files, screenshot, loop>>

\* map_to_form_fields and get_checkbox_fields, as app.py calls them
VARIABLES
    m_pc,        \* position between the two mapper calls
    m_passport,  \* argument `passport_data`
    m_g28,       \* argument `g28_data`
    fields,      \* local `fields` of process_documents
    checkboxes,  \* local `checkboxes` of process_documents
    m_exc        \* the exception a mapper call raised

mVars == <<m_pc, m_passport, m_g28, fields, checkboxes, m_exc>>

\* populate_form, as app.py calls it
VARIABLES
    f_pc,             \* position inside populate_form and around it
    headless_env,     \* os.getenv("HEADLESS_MODE") when config.py is imported
    HEADLESS_MODE,    \* config.HEADLESS_MODE
    f_items,          \* argument `fields`, as fields.items()
    f_boxes,          \* argument `checkboxes`, as checkboxes.items()
    f_page,           \* the page the browser opens
    f_calls,          \* populate_form calls started in this process
    open_browsers,    \* the calls whose browser is running
    visual_sessions,  \* module global _visual_sessions, by call
    f_located,        \* the elements _fill_page asked the page for
    f_exc,            \* the exception caught at line 123
    f_result,         \* local `result` of process_documents
    f_reply           \* the response process_documents returns

fVars ==
    <<f_pc, headless_env, HEADLESS_MODE, f_items, f_boxes, f_page, f_calls,
      open_browsers, visual_sessions, f_located, f_exc, f_result, f_reply>>

NotAcq == <<xVars, pVars, mVars, fVars>>

NotExtract == <<acqVars, pVars, mVars, fVars>>

NotPipeline == <<acqVars, xVars, mVars, fVars>>

NotMapper == <<acqVars, xVars, pVars, fVars>>

NotFiller == <<acqVars, xVars, pVars, mVars>>

vars == <<acqVars, xVars, pVars, mVars, fVars>>

\* --------------------------------------------------------- ocr_handler.py

\* One external call in the log: its name and whether it returned normally.
Eff(call, ok) == [call |-> call, ok |-> ok]

Called(call) == \E i \in 1..Len(effects) : effects[i].call = call

CountCalls(call) == Cardinality({i \in 1..Len(effects) : effects[i].call = call})

\* A detection line of results[0]: [bbox, (text, confidence)], [bbox, text],
\* or a line whose second element is neither.  Confidence is in hundredths.
Confidences == {29, 30, 31, 90}

DetText(i) == <<"w">> \o IntStr(i)

DetectionForms ==
    { [form |-> "pair", confidence |-> c] : c \in Confidences }
    \cup { [form |-> "str", confidence |-> 0], [form |-> "other", confidence |-> 0] }

DetectionSeqs(n) ==
    UNION { { [i \in 1..k |-> [form |-> f[i].form,
                               confidence |-> f[i].confidence,
                               text |-> DetText(i)]] :
                f \in [1..k -> DetectionForms] } : k \in 0..n }

\* What ocr.ocr(img_array) does: raise, return nothing, or return lines.
OcrOutcome(raises, falsy, lines) == [raises |-> raises, falsy |-> falsy, lines |-> lines]

NoLines == OcrOutcome(FALSE, TRUE, <<>>)

ImageOcrOutcomes ==
    { OcrOutcome(TRUE, FALSE, <<>>), NoLines }
    \cup { OcrOutcome(FALSE, FALSE, l) : l \in DetectionSeqs(MaxDetections) }

\* The outcomes drawn for a page of a scanned PDF.
PageOcrOutcomes ==
    { OcrOutcome(TRUE, FALSE, <<>>), NoLines }
    \cup { OcrOutcome(FALSE, FALSE, l) : l \in DetectionSeqs(1) }

\* A filter that also keeps a detection at exactly the threshold.
PassesFilterInclusive(confidence) == confidence >= 30

\* Line 104: the confidence filter.
PassesFilter(confidence) == confidence > 30

\* Lines 91-106: the loop over results[0].
RECURSIVE FilterLines(_)
FilterLines(lines) ==
    IF lines = <<>> THEN <<>>
    ELSE LET line == Head(lines)
             confidence == IF line.form = "str" THEN 100 ELSE line.confidence
         IN  (IF line.form /= "other" /\ PassesFilter(confidence)
              THEN <<line.text>>
              ELSE <<>>) \o FilterLines(Tail(lines))

\* A reader that is built anew by every call.
IsNoneAlways(reader) == TRUE

\* Line 27: _ocr_reader is None.
IsNone(reader) == reader = "None"

\* _get_ocr_reader: the reader after the call, given whether a construction,
\* if one is needed, succeeds.
get_ocr_reader(reader, ctor_ok) ==
    IF IsNone(reader) THEN (IF ctor_ok THEN "PaddleOCR" ELSE "None") ELSE reader

\* extract_text_from_image: every exception inside is turned into None.
extract_text_from_image(reader, ctor_ok, out) ==
    IF get_ocr_reader(reader, ctor_ok) = "None" THEN None
    ELSE IF out.raises THEN None
    ELSE IF out.falsy \/ out.lines = <<>> THEN None
    ELSE LET text_parts == FilterLines(out.lines)
         IN  IF text_parts /= <<>> THEN Some(Join(text_parts, <<" ">>)) ELSE None

\* A length test that forgets to trim the text.
LocalDirectOkUntrimmed(t) == Truthy(t) /\ Len(t.val) >= 50

\* Line 143 of extract_text_from_pdf_or_image.
LocalDirectOk(t) == Truthy(t) /\ Len(Strip(t.val)) >= 50

\* Line 253 of extract_passport_text_with_gemini.
GeminiDirectOk(t) == Truthy(t) /\ Len(Strip(t.val)) >= 50

\* response of model.generate_content: reading response.text either raises
\* or yields a string (possibly empty).
Response(readable, t) == [readable |-> readable, text |-> t]

NoResponse == Response(FALSE, None)

GeminiResponses ==
    { NoResponse,
      Response(TRUE, Some(<<>>)),
      Response(TRUE, Some(<<" ", "\n">>)),
      Response(TRUE, Some(<<"P", "<", "X">>)),
      Response(TRUE, Some(<<" ", "P", "<", "X", "\n">>)) }

\* Lines 272 and 286: response.text.strip() if response.text else None
ResponseValue(r) == IF Truthy(r.text) THEN Some(Strip(r.text.val)) ELSE None

ImageSuffixes == {".jpg", ".jpeg", ".png"}

Locals ==
    /\ text = None
    /\ response = NoResponse
    /\ page_count = 0
    /\ page_num = 0
    /\ page_texts = <<>>
    /\ results = NoLines
    /\ ret = None
    /\ effects = <<>>

InitAcq ==
    /\ pc = "idle"
    /\ fn = "local"
    /\ doc = [ext |-> "", readable |-> FALSE, pages |-> <<>>]
    /\ Locals
    /\ ocr_reader = "None"
    /\ ocr_builds = 0
    /\ calls = 0

Globals == <<ocr_reader, ocr_builds, calls>>

\* The function returns v.
ReturnValue(v) == ret' = v /\ pc' = "done"

\* The caller invokes one of the two acquisition functions on a stored file;
\* lines 135-137/192/207 and 245-247/282/288 branch on the suffix.
Call(f, d) ==
    /\ pc = "idle"
    /\ calls < MaxCalls
    /\ calls' = calls + 1
    /\ fn' = f
    /\ doc' = d
    /\ pc' = IF d.ext = ".pdf" THEN "direct"
             ELSE IF d.ext \in ImageSuffixes THEN "image"
             ELSE "unsupported"
    /\ UNCHANGED <<text, response, page_count, page_num, page_texts, results,
                   ret, effects, ocr_reader, ocr_builds>>
    /\ UNCHANGED NotAcq

\* extract_passport_text_with_gemini, lines 250-258.
GDirect ==
    /\ pc = "direct" /\ fn = "gemini"
    /\ text' = extract_text_from_pdf(doc)
    /\ effects' = Append(effects, Eff("extract_text_from_pdf", TRUE))
    /\ IF GeminiDirectOk(text')
       THEN ReturnValue(text')
       ELSE pc' = "upload" /\ ret' = ret
    /\ UNCHANGED <<fn, doc, response, page_count, page_num, page_texts, results, Globals>>
    /\ UNCHANGED NotAcq

\* Line 261: genai.upload_file; a raise goes to the handler of line 292.
GUpload ==
    /\ pc = "upload"
    /\ \E ok \in BOOLEAN :
        /\ effects' = Append(effects, Eff("upload_file", ok))
        /\ IF ok THEN pc' = "generate" /\ ret' = ret ELSE ReturnValue(None)
    /\ UNCHANGED <<fn, doc, text, response, page_count, page_num, page_texts, results, Globals>>
    /\ UNCHANGED NotAcq

\* Line 266: model.generate_content([prompt, gemini_file]).
GGenerate ==
    /\ pc = "generate"
    /\ \/ \E r \in GeminiResponses :
            /\ response' = r
            /\ effects' = Append(effects, Eff("generate_content", TRUE))
            /\ pc' = "delete"
       \/ /\ effects' = Append(effects, Eff("generate_content", FALSE))
          /\ pc' = "except"
          /\ UNCHANGED response
    /\ UNCHANGED <<fn, doc, text, page_count, page_num, page_texts, results, ret, Globals>>
    /\ UNCHANGED NotAcq

\* A cleanup whose failure is passed over: the text is returned all the same.
GDeleteBestEffort ==
    /\ pc = "delete"
    /\ \E ok \in BOOLEAN :
        /\ effects' = Append(effects, Eff("delete_file", ok))
        /\ pc' = "return"
    /\ UNCHANGED <<fn, doc, text, response, page_count, page_num, page_texts, results, ret, Globals>>
    /\ UNCHANGED NotAcq

\* Line 269: genai.delete_file on the success path.
GDelete ==
    /\ pc = "delete"
    /\ \E ok \in BOOLEAN :
        /\ effects' = Append(effects, Eff("delete_file", ok))
        /\ pc' = IF ok THEN "return" ELSE "except"
    /\ UNCHANGED <<fn, doc, text, response, page_count, page_num, page_texts, results, ret, Globals>>
    /\ UNCHANGED NotAcq

\* Line 272: return response.text.strip() if response.text else None
GReturn ==
    /\ pc = "return"
    /\ IF response.readable
       THEN ReturnValue(ResponseValue(response))
       ELSE pc' = "except" /\ ret' = ret
    /\ UNCHANGED <<fn, doc, text, response, page_count, page_num, page_texts, results, effects, Globals>>
    /\ UNCHANGED NotAcq

\* A handler that re-raises without the cleanup call.
GExceptNoCleanup ==
    /\ pc = "except"
    /\ ReturnValue(None)
    /\ UNCHANGED <<fn, doc, text, response, page_count, page_num, page_texts, results, effects, Globals>>
    /\ UNCHANGED NotAcq

\* Lines 274-280 and 292-294: cleanup in the handler, re-raise, return None.
GExcept ==
    /\ pc = "except"
    /\ \E ok \in BOOLEAN : effects' = Append(effects, Eff("delete_file", ok))
    /\ ReturnValue(None)
    /\ UNCHANGED <<fn, doc, text, response, page_count, page_num, page_texts, results, Globals>>
    /\ UNCHANGED NotAcq

\* Lines 282-286: an image is opened and sent inline.
GImage ==
    /\ pc = "image" /\ fn = "gemini"
    /\ \/ /\ effects' = Append(effects, Eff("Image.open", FALSE))
          /\ ReturnValue(None)
          /\ UNCHANGED response
       \/ /\ effects' = effects \o <<Eff("Image.open", TRUE), Eff("generate_content", FALSE)>>
          /\ ReturnValue(None)
          /\ UNCHANGED response
       \/ \E r \in GeminiResponses :
            /\ response' = r
            /\ effects' = effects \o <<Eff("Image.open", TRUE), Eff("generate_content", TRUE)>>
            /\ ReturnValue(IF r.readable THEN ResponseValue(r) ELSE None)
    /\ UNCHANGED <<fn, doc, text, page_count, page_num, page_texts, results, Globals>>
    /\ UNCHANGED NotAcq

\* Lines 288-290 and 207-209: unsupported file type.
Unsupported ==
    /\ pc = "unsupported"
    /\ ReturnValue(None)
    /\ UNCHANGED <<fn, doc, text, response, page_count, page_num, page_texts, results, effects, Globals>>
    /\ UNCHANGED NotAcq

\* extract_text_from_pdf_or_image, lines 140-151.
LDirect ==
    /\ pc = "direct" /\ fn = "local"
    /\ text' = extract_text_from_pdf(doc)
    /\ effects' = Append(effects, Eff("extract_text_from_pdf", TRUE))
    /\ IF LocalDirectOk(text')
       THEN ReturnValue(text')
       ELSE pc' = "page_count" /\ ret' = ret
    /\ UNCHANGED <<fn, doc, response, page_count, page_num, page_texts, results, Globals>>
    /\ UNCHANGED NotAcq

\* Lines 153-161.
LPageCount ==
    /\ pc = "page_count"
    /\ page_count' = get_pdf_page_count(doc)
    /\ effects' = Append(effects, Eff("get_pdf_page_count", TRUE))
    /\ page_num' = 0
    /\ page_texts' = <<>>
    /\ IF page_count' = 0 THEN ReturnValue(None) ELSE pc' = "pages" /\ ret' = ret
    /\ UNCHANGED <<fn, doc, text, response, results, Globals>>
    /\ UNCHANGED NotAcq

\* The effect of one extract_text_from_image call on the module global and
\* on the call log.
RunOcr(ctor_ok, out) ==
    /\ ocr_reader' = get_ocr_reader(ocr_reader, ctor_ok)
    /\ ocr_builds' = IF IsNone(ocr_reader) /\ ctor_ok THEN ocr_builds + 1 ELSE ocr_builds
    /\ results' = out

OcrEffects(ctor_ok, out) ==
    (IF IsNone(ocr_reader) THEN <<Eff("PaddleOCR", ctor_ok)>> ELSE <<>>)
    \o (IF get_ocr_reader(ocr_reader, ctor_ok) /= "None"
        THEN <<Eff("ocr", ~out.raises)>>
        ELSE <<>>)

CtorChoices == IF IsNone(ocr_reader) THEN BOOLEAN ELSE {TRUE}

\* A page loop that gives the document up at the first page it cannot
\* render.
LPageAborting ==
    /\ pc = "pages"
    /\ page_num < page_count
    /\ page_num' = page_num + 1
    /\ \/ /\ effects' = Append(effects, Eff("convert_pdf_page_to_image", FALSE))
          /\ ReturnValue(None)
          /\ UNCHANGED <<page_texts, results, ocr_reader, ocr_builds>>
       \/ \E ctor_ok \in CtorChoices, out \in PageOcrOutcomes :
            LET page_text == extract_text_from_image(ocr_reader, ctor_ok, out)
            IN  /\ RunOcr(ctor_ok, out)
                /\ effects' = effects \o <<Eff("convert_pdf_page_to_image", TRUE)>>
                                      \o OcrEffects(ctor_ok, out)
                /\ page_texts' = IF Truthy(page_text)
                                 THEN Append(page_texts, PageBlock(page_num + 1, page_text.val))
                                 ELSE page_texts
                /\ UNCHANGED <<pc, ret>>
    /\ UNCHANGED <<fn, doc, text, response, page_count, calls>>
    /\ UNCHANGED NotAcq

\* Lines 162-179: one iteration of the page loop.
LPage ==
    /\ pc = "pages"
    /\ page_num < page_count
    /\ page_num' = page_num + 1
    /\ \/ /\ effects' = Append(effects, Eff("convert_pdf_page_to_image", FALSE))
          /\ UNCHANGED <<page_texts, results, ocr_reader, ocr_builds>>
       \/ \E ctor_ok \in CtorChoices, out \in PageOcrOutcomes :
            LET page_text == extract_text_from_image(ocr_reader, ctor_ok, out)
            IN  /\ RunOcr(ctor_ok, out)
                /\ effects' = effects \o <<Eff("convert_pdf_page_to_image", TRUE)>>
                                      \o OcrEffects(ctor_ok, out)
                /\ page_texts' = IF Truthy(page_text)
                                 THEN Append(page_texts, PageBlock(page_num + 1, page_text.val))
                                 ELSE page_texts
    /\ UNCHANGED <<pc, fn, doc, text, response, page_count, ret, calls>>
    /\ UNCHANGED NotAcq

\* Lines 181-190.
LJoin ==
    /\ pc = "pages"
    /\ page_num = page_count
    /\ ReturnValue(IF page_texts /= <<>>
                   THEN Some(Join(page_texts, <<"\n", "\n">>))
                   ELSE None)
    /\ UNCHANGED <<fn, doc, text, response, page_count, page_num, page_texts, results, effects, Globals>>
    /\ UNCHANGED NotAcq

\* Lines 192-205.
LImage ==
    /\ pc = "image" /\ fn = "local"
    /\ \/ /\ effects' = Append(effects, Eff("Image.open", FALSE))
          /\ ReturnValue(None)
          /\ UNCHANGED <<results, ocr_reader, ocr_builds>>
       \/ \E ctor_ok \in CtorChoices, out \in ImageOcrOutcomes :
            /\ RunOcr(ctor_ok, out)
            /\ effects' = effects \o <<Eff("Image.open", TRUE)>> \o OcrEffects(ctor_ok, out)
            /\ ReturnValue(extract_text_from_image(ocr_reader, ctor_ok, out))
    /\ UNCHANGED <<fn, doc, text, response, page_count, page_num, page_texts, calls>>
    /\ UNCHANGED NotAcq

\* The caller takes the returned value; the locals of the call are gone.
Return ==
    /\ pc = "done"
    /\ pc' = "idle"
    /\ text' = None
    /\ response' = NoResponse
    /\ page_count' = 0
    /\ page_num' = 0
    /\ page_texts' = <<>>
    /\ results' = NoLines
    /\ ret' = None
    /\ effects' = <<>>
    /\ UNCHANGED <<fn, doc, Globals>>
    /\ UNCHANGED NotAcq

NextAcq ==
    \/ \E f \in {"gemini", "local"}, d \in Documents : Call(f, d)
    \/ GDirect
    \/ GUpload
    \/ GGenerate
    \/ GDelete
    \/ GReturn
    \/ GExcept
    \/ GImage
    \/ Unsupported
    \/ LDirect
    \/ LPageCount
    \/ LPage
    \/ LJoin
    \/ LImage
    \/ Return


\* ---- extract_data as a process

InitExtract ==
    /\ x_pc = "idle"
    /\ raw = <<>>
    /\ payload = Unset
    /\ lax = FALSE
    /\ response_text = <<>>
    /\ data = Unset
    /\ passport_data = Unset
    /\ g28_data = Unset
    /\ exc = NoExc
    /\ raised = NoExc
    /\ log = <<>>

\* Line 107: model.generate_content(prompt) raises.
XGenerateFails ==
    /\ x_pc = "idle"
    /\ \E t \in ErrorTexts : exc' = RemoteError(t)
    /\ x_pc' = "handler"
    /\ UNCHANGED <<raw, payload, lax, response_text, data, passport_data, g28_data, raised, log>>
    /\ UNCHANGED NotExtract

\* Line 110: response.text raises, or is None.
XNoText ==
    /\ x_pc = "idle"
    /\ exc' \in {BlockedError, AttributeError("null", <<"s", "t", "r", "i", "p">>)}
    /\ x_pc' = "handler"
    /\ UNCHANGED <<raw, payload, lax, response_text, data, passport_data, g28_data, raised, log>>
    /\ UNCHANGED NotExtract

\* Lines 107-110: the call returns a text.
XGenerate ==
    /\ x_pc = "idle"
    /\ \/ /\ raw' \in JsonTexts \cup FencedTexts
          /\ payload' \in JsonDocs
       \/ /\ raw' \in OtherTexts
          /\ payload' \in {DefaultDoc}
       \/ /\ raw' \in ProseTexts
          /\ payload' \in {DefaultDoc}
    /\ lax' \in BOOLEAN
    /\ x_pc' = "parse"
    /\ UNCHANGED <<response_text, data, passport_data, g28_data, exc, raised, log>>
    /\ UNCHANGED NotExtract

\* Lines 110-131: the fence is taken off and the text parsed.
XParse ==
    /\ x_pc = "parse"
    /\ response_text' = StripFences(raw)
    /\ IF JsonParses(response_text')
       THEN /\ data' = payload
            /\ x_pc' = "build"
            /\ UNCHANGED <<exc, log>>
       ELSE /\ log' = log \o InvalidJsonLog(response_text')
            /\ exc' = Exc("ValueError", "invalid_json", InvalidJsonMessage)
            /\ x_pc' = "handler"
            /\ UNCHANGED data
    /\ UNCHANGED <<raw, payload, lax, passport_data, g28_data, raised>>
    /\ UNCHANGED NotExtract

\* Lines 133-170: the records are built and returned.
XBuild ==
    /\ x_pc = "build"
    /\ LET b == Build(data, lax)
       IN  IF b.exc = NoExc
           THEN /\ passport_data' = b.passport_data
                /\ g28_data' = b.g28_data
                /\ x_pc' = "returned"
                /\ UNCHANGED exc
           ELSE /\ exc' = b.exc
                /\ x_pc' = "handler"
                /\ UNCHANGED <<passport_data, g28_data>>
    /\ UNCHANGED <<raw, payload, lax, response_text, data, raised, log>>
    /\ UNCHANGED NotExtract

\* Lines 172-199: the exception leaves through one of the two handlers.
XHandle ==
    /\ x_pc = "handler"
    /\ raised' = Handle(exc)
    /\ log' = IF IsValueError(exc.type)
              THEN log
              ELSE Append(log, <<Lit("LLM extraction failed: "), TextSeg(ErrorMsg(exc))>>)
    /\ x_pc' = "raised"
    /\ UNCHANGED <<raw, payload, lax, response_text, data, passport_data, g28_data, exc>>
    /\ UNCHANGED NotExtract

\* The caller has the result; the next request calls extract_data afresh.
XReset ==
    /\ x_pc \in {"returned", "raised"}
    /\ x_pc' = "idle"
    /\ raw' = <<>>
    /\ payload' = Unset
    /\ lax' = FALSE
    /\ response_text' = <<>>
    /\ data' = Unset
    /\ passport_data' = Unset
    /\ g28_data' = Unset
    /\ exc' = NoExc
    /\ raised' = NoExc
    /\ log' = <<>>
    /\ UNCHANGED NotExtract

NextExtract ==
    \/ XGenerateFails
    \/ XNoText
    \/ XGenerate
    \/ XParse
    \/ XBuild
    \/ XHandle
    \/ XReset

\* --------------------------------------------------------- process_documents

Idle == "idle"

InitPipeline ==
    /\ p_pc = [r \in Requests |-> "new"]
    /\ passport_name = [r \in Requests |-> None]
    /\ g28_name = [r \in Requests |-> None]
    /\ passport_size = [r \in Requests |-> 0]
    /\ g28_size = [r \in Requests |-> 0]
    /\ passport_path = [r \in Requests |-> None]
    /\ g28_path = [r \in Requests |-> None]
    /\ passport_text = [r \in Requests |-> None]
    /\ g28_text = [r \in Requests |-> None]
    /\ extraction = [r \in Requests |-> "none"]
    /\ fill = [r \in Requests |-> NoResult]
    /\ reply = [r \in Requests |-> NoReply]
    /\ trace = [r \in Requests |-> <<>>]
    /\ files = {}
    /\ screenshot = Idle
    /\ loop = Idle

\* The coroutine of r can take its next step: the loop runs it already, or
\* runs nothing.
Runs(r) == loop \in {Idle, r}

\* path.unlink() of a path that exists: the file is gone, or the call raises
\* and the file stays.
Unlinked(ok, path, existing) ==
    [raised |-> ~ok, files |-> IF ok THEN existing \ {path} ELSE existing]

\* `if path and path.exists(): path.unlink()`: the outcomes it can have.
UnlinkIfExists(path, existing) ==
    IF Truthy(path) /\ path.val \in existing
    THEN { Unlinked(ok, path.val, existing) : ok \in BOOLEAN }
    ELSE { Unlinked(TRUE, <<>>, existing) }

\* Lines 204-214: the finally block, with the two paths as they are then.
\* Both unlink calls stand in one try: when the first one raises, the
\* second one is not made.  The sets of files it can leave.
Cleanup(pp, gp, existing) ==
    UNION { IF first.raised THEN { first.files }
            ELSE { second.files : second \in UnlinkIfExists(gp, first.files) } :
            first \in UnlinkIfExists(pp, existing) }

\* return error_response(...) or success_response(...), or an exception
\* caught at lines 194-202, then the finally block: the request is over.
Respond(r, status, message, pp, gp, existing) ==
    /\ reply' = [reply EXCEPT ![r] = Reply(status, message)]
    /\ files' \in Cleanup(pp, gp, existing)
    /\ p_pc' = [p_pc EXCEPT ![r] = "responded"]
    /\ loop' = Idle

\* One more call in the request's trace.
Traced(r, stages) == trace' = [trace EXCEPT ![r] = trace[r] \o stages]

\* Lines 114-126: both uploads are validated, the two paths are made, the
\* passport file is opened for writing and its upload awaited.
Receive(r) ==
    /\ p_pc[r] = "new"
    /\ Runs(r)
    /\ \E passport_file \in Uploads, g28_file \in Uploads, stamp \in Timestamps,
          opens \in BOOLEAN :
          /\ passport_name' = [passport_name EXCEPT ![r] = passport_file.filename]
          /\ g28_name' = [g28_name EXCEPT ![r] = g28_file.filename]
          /\ passport_size' = [passport_size EXCEPT ![r] = passport_file.size]
          /\ g28_size' = [g28_size EXCEPT ![r] = g28_file.size]
          /\ IF validate_upload(passport_file, MAX_FILE_SIZE_MB) /= NoExc
             THEN /\ Traced(r, <<"validate_upload">>)
                  /\ Respond(r, "error", "Processing failed", None, None, files)
                  /\ UNCHANGED <<passport_path, g28_path>>
             ELSE IF validate_upload(g28_file, MAX_FILE_SIZE_MB) /= NoExc
             THEN /\ Traced(r, <<"validate_upload", "validate_upload">>)
                  /\ Respond(r, "error", "Processing failed", None, None, files)
                  /\ UNCHANGED <<passport_path, g28_path>>
             ELSE LET pp == Some(UploadPath(<<"p", "a", "s", "s", "p", "o", "r", "t">>, stamp, passport_file.filename.val))
                      gp == Some(UploadPath(<<"g", "2", "8">>, stamp, g28_file.filename.val))
                  IN  /\ Traced(r, <<"validate_upload", "validate_upload">>)
                      /\ passport_path' = [passport_path EXCEPT ![r] = pp]
                      /\ g28_path' = [g28_path EXCEPT ![r] = gp]
                      /\ IF opens
                         THEN /\ files' = files \cup {pp.val}
                              /\ p_pc' = [p_pc EXCEPT ![r] = "read_passport"]
                              /\ loop' = Idle
                              /\ UNCHANGED reply
                         ELSE Respond(r, "error", "Unexpected error", pp, gp, files)
    /\ UNCHANGED <<passport_text, g28_text, extraction, fill, screenshot>>
    /\ UNCHANGED NotPipeline

\* Lines 126-130: the passport upload is written to the open file, the G-28
\* file is opened for writing (which creates it) and its upload awaited.
SavePassport(r) ==
    /\ p_pc[r] = "read_passport"
    /\ Runs(r)
    /\ \E opens \in BOOLEAN :
          IF opens
          THEN /\ files' = files \cup {g28_path[r].val}
               /\ p_pc' = [p_pc EXCEPT ![r] = "read_g28"]
               /\ loop' = Idle
               /\ UNCHANGED reply
          ELSE Respond(r, "error", "Unexpected error", passport_path[r], g28_path[r], files)
    /\ UNCHANGED <<passport_name, g28_name, passport_size, g28_size, passport_path,
                   g28_path, passport_text, g28_text, extraction, fill, trace, screenshot>>
    /\ UNCHANGED NotPipeline

\* Lines 130-133: the G-28 upload is written; the coroutine runs on.
SaveG28(r) ==
    /\ p_pc[r] = "read_g28"
    /\ Runs(r)
    /\ p_pc' = [p_pc EXCEPT ![r] = "acquire_passport"]
    /\ loop' = r
    /\ UNCHANGED <<passport_name, g28_name, passport_size, g28_size, passport_path,
                   g28_path, passport_text, g28_text, extraction, fill, reply, trace,
                   files, screenshot>>
    /\ UNCHANGED NotPipeline

\* What an acquisition function gives back for the stored file.
Acquirable(path) ==
    IF path \in files /\ Supported(path) THEN AcquiredTexts ELSE {None}

\* Lines 135-143: the passport text is acquired.
AcquirePassport(r) ==
    /\ p_pc[r] = "acquire_passport"
    /\ loop = r
    /\ \E t \in Acquirable(passport_path[r].val) :
          /\ passport_text' = [passport_text EXCEPT ![r] = t]
          /\ IF Obtained(t)
             THEN /\ p_pc' = [p_pc EXCEPT ![r] = "acquire_g28"]
                  /\ UNCHANGED <<reply, files, loop>>
             ELSE Respond(r, "error", "Failed to extract text from passport",
                          passport_path[r], g28_path[r], files)
    /\ Traced(r, <<"extract_passport_text_with_gemini">>)
    /\ UNCHANGED <<passport_name, g28_name, passport_size, g28_size, passport_path,
                   g28_path, g28_text, extraction, fill, screenshot>>
    /\ UNCHANGED NotPipeline

\* Lines 150-158: the G-28 text is acquired.
AcquireG28(r) ==
    /\ p_pc[r] = "acquire_g28"
    /\ loop = r
    /\ \E t \in Acquirable(g28_path[r].val) :
          /\ g28_text' = [g28_text EXCEPT ![r] = t]
          /\ IF Obtained(t)
             THEN /\ p_pc' = [p_pc EXCEPT ![r] = "extract"]
                  /\ UNCHANGED <<reply, files, loop>>
             ELSE Respond(r, "error", "Failed to extract text from G-28",
                          passport_path[r], g28_path[r], files)
    /\ Traced(r, <<"extract_text_from_pdf_or_image">>)
    /\ UNCHANGED <<passport_name, g28_name, passport_size, g28_size, passport_path,
                   g28_path, passport_text, extraction, fill, screenshot>>
    /\ UNCHANGED NotPipeline

\* Lines 161-167: extract_data returns the two records or raises ValueError.
Extract(r) ==
    /\ p_pc[r] = "extract"
    /\ loop = r
    /\ \E outcome \in {"returned", "ValueError"} :
          /\ extraction' = [extraction EXCEPT ![r] = outcome]
          /\ IF outcome = "returned"
             THEN /\ p_pc' = [p_pc EXCEPT ![r] = "map"]
                  /\ UNCHANGED <<reply, files, loop>>
             ELSE Respond(r, "error", "Data extraction failed",
                          passport_path[r], g28_path[r], files)
    /\ Traced(r, <<"extract_data">>)
    /\ UNCHANGED <<passport_name, g28_name, passport_size, g28_size, passport_path,
                   g28_path, passport_text, g28_text, fill, screenshot>>
    /\ UNCHANGED NotPipeline

\* Lines 169-180: the records are mapped and populate_form is handed to a
\* worker thread; the coroutine waits for it.
Map(r) ==
    /\ p_pc[r] = "map"
    /\ loop = r
    /\ Traced(r, <<"map_to_form_fields", "get_checkbox_fields">>)
    /\ p_pc' = [p_pc EXCEPT ![r] = "populating"]
    /\ loop' = Idle
    /\ UNCHANGED <<passport_name, g28_name, passport_size, g28_size, passport_path,
                   g28_path, passport_text, g28_text, extraction, fill, reply, files,
                   screenshot>>
    /\ UNCHANGED NotPipeline

\* populate_form in its thread: the form is filled and the screenshot saved,
\* or the browser run raises and nothing is saved.
Populate(r) ==
    /\ p_pc[r] = "populating"
    /\ \E res \in FillResults :
          /\ fill' = [fill EXCEPT ![r] = res]
          /\ screenshot' = IF res.screenshot THEN r ELSE screenshot
    /\ Traced(r, <<"populate_form">>)
    /\ p_pc' = [p_pc EXCEPT ![r] = "populated"]
    /\ UNCHANGED <<passport_name, g28_name, passport_size, g28_size, passport_path,
                   g28_path, passport_text, g28_text, extraction, reply, files, loop>>
    /\ UNCHANGED NotPipeline

\* Lines 182-192: the result of the fill is turned into the response.
Finish(r) ==
    /\ p_pc[r] = "populated"
    /\ Runs(r)
    /\ IF fill[r].success
       THEN Respond(r, "success", "Documents processed and form populated successfully",
                    passport_path[r], g28_path[r], files)
       ELSE Respond(r, "error", "Form population failed",
                    passport_path[r], g28_path[r], files)
    /\ UNCHANGED <<passport_name, g28_name, passport_size, g28_size, passport_path,
                   g28_path, passport_text, g28_text, extraction, fill, trace, screenshot>>
    /\ UNCHANGED NotPipeline

NextPipeline ==
    \/ \E r \in Requests : Receive(r)
    \/ \E r \in Requests : SavePassport(r)
    \/ \E r \in Requests : SaveG28(r)
    \/ \E r \in Requests : AcquirePassport(r)
    \/ \E r \in Requests : AcquireG28(r)
    \/ \E r \in Requests : Extract(r)
    \/ \E r \in Requests : Map(r)
    \/ \E r \in Requests : Populate(r)
    \/ \E r \in Requests : Finish(r)

\* --------------------------------------------------------- the mapper calls of app.py

InitMapper ==
    /\ m_pc = "idle"
    /\ m_passport = Unset
    /\ m_g28 = Unset
    /\ fields = Unset
    /\ checkboxes = Unset
    /\ m_exc = NoExc

\* extract_data has returned the two records.
MCall ==
    /\ m_pc = "idle"
    /\ m_passport' \in PassportRecords
    /\ m_g28' \in G28Records
    /\ m_pc' = "fields"
    /\ UNCHANGED <<fields, checkboxes, m_exc>>
    /\ UNCHANGED NotMapper

\* app.py line 171: fields = map_to_form_fields(passport_data, g28_data).
MFields ==
    /\ m_pc = "fields"
    /\ LET out == map_to_form_fields(m_passport, m_g28)
       IN  IF out.exc = NoExc
           THEN /\ fields' = out.dict
                /\ m_pc' = "checkboxes"
                /\ UNCHANGED m_exc
           ELSE /\ m_exc' = out.exc
                /\ m_pc' = "raised"
                /\ UNCHANGED fields
    /\ UNCHANGED <<m_passport, m_g28, checkboxes>>
    /\ UNCHANGED NotMapper

\* app.py line 172: checkboxes = get_checkbox_fields(g28_data).
MCheckboxes ==
    /\ m_pc = "checkboxes"
    /\ LET out == get_checkbox_fields(m_g28)
       IN  IF out.exc = NoExc
           THEN /\ checkboxes' = out.dict
                /\ m_pc' = "mapped"
                /\ UNCHANGED m_exc
           ELSE /\ m_exc' = out.exc
                /\ m_pc' = "raised"
                /\ UNCHANGED checkboxes
    /\ UNCHANGED <<m_passport, m_g28, fields>>
    /\ UNCHANGED NotMapper

\* The request goes on to the form fill, or ends; the next one maps afresh.
MReset ==
    /\ m_pc \in {"mapped", "raised"}
    /\ m_pc' = "idle"
    /\ m_passport' = Unset
    /\ m_g28' = Unset
    /\ fields' = Unset
    /\ checkboxes' = Unset
    /\ m_exc' = NoExc
    /\ UNCHANGED NotMapper

NextMapper ==
    \/ MCall
    \/ MFields
    \/ MCheckboxes
    \/ MReset

\* --------------------------------------------------------- populate_form

InitFiller ==
    /\ f_pc = "import"
    /\ headless_env = Unset
    /\ HEADLESS_MODE = Unset
    /\ f_items = Unset
    /\ f_boxes = Unset
    /\ f_page = Unset
    /\ f_calls = 0
    /\ open_browsers = {}
    /\ visual_sessions = <<>>
    /\ f_located = <<>>
    /\ f_exc = NoExc
    /\ f_result = Unset
    /\ f_reply = NoReply

\* config.py line 16, run once when the module is imported.
FImport ==
    /\ f_pc = "import"
    /\ \E env \in HeadlessEnv :
          /\ headless_env' = env
          /\ HEADLESS_MODE' = HeadlessMode(env)
    /\ f_pc' = "idle"
    /\ UNCHANGED <<f_located, f_items, f_boxes, f_page, f_calls, open_browsers,
                   visual_sessions,
                   f_exc, f_result, f_reply>>
    /\ UNCHANGED NotFiller

\* app.py line 180: populate_form is called with the two maps.
FCall ==
    /\ f_pc = "idle"
    /\ f_calls < MaxFills
    /\ \E items \in FormItems, boxes \in FormBoxes, page \in Pages :
          /\ f_items' = items
          /\ f_boxes' = boxes
          /\ f_page' = page
    /\ f_calls' = f_calls + 1
    /\ f_pc' = "launch"
    /\ UNCHANGED <<f_located, headless_env, HEADLESS_MODE, open_browsers, visual_sessions,
                   f_exc, f_result, f_reply>>
    /\ UNCHANGED NotFiller

\* Lines 103-105, 111-113: the browser cannot be started; the except branch
\* returns its dict.
FLaunchFails ==
    /\ f_pc = "launch"
    /\ f_exc' = PlaywrightError
    /\ f_result' = FailureReport
    /\ f_pc' = "returned"
    /\ UNCHANGED <<f_located, headless_env, HEADLESS_MODE, f_items, f_boxes, f_page,
                   f_calls,
                   open_browsers, visual_sessions, f_reply>>
    /\ UNCHANGED NotFiller

\* Lines 103-105, 111-113: the browser runs and has a page.
FLaunch ==
    /\ f_pc = "launch"
    /\ open_browsers' = open_browsers \cup {f_calls}
    /\ f_pc' = "fill"
    /\ UNCHANGED <<f_located, headless_env, HEADLESS_MODE, f_items, f_boxes, f_page,
                   f_calls,
                   visual_sessions, f_exc, f_result, f_reply>>
    /\ UNCHANGED NotFiller

\* Lines 106 and 115: _fill_page.  When it raises, the with block of the
\* headless branch stops the browser on the way out, the visual branch has
\* nothing that does, and the except branch returns its dict.
FFillPage ==
    /\ f_pc = "fill"
    /\ LET out == fill_page(f_page, f_items, f_boxes, HEADLESS_MODE)
       IN  /\ f_located' = out.located
           /\ IF out.exc /= NoExc
              THEN /\ f_exc' = out.exc
                   /\ f_result' = FailureReport
                   /\ open_browsers' =
                         IF HEADLESS_MODE THEN open_browsers \ {f_calls}
                         ELSE open_browsers
                   /\ f_pc' = "returned"
              ELSE /\ f_result' = out.report
                   /\ f_pc' = "close"
                   /\ UNCHANGED <<f_exc, open_browsers>>
    /\ UNCHANGED <<headless_env, HEADLESS_MODE, f_items, f_boxes, f_page, f_calls,
                   visual_sessions, f_reply>>
    /\ UNCHANGED NotFiller

\* Lines 107-108: browser.close(), or lines 118-121: the session is kept in
\* _visual_sessions and the browser left open; the dict is returned.
FFinish ==
    /\ f_pc = "close"
    /\ IF HEADLESS_MODE
       THEN /\ open_browsers' = open_browsers \ {f_calls}
            /\ UNCHANGED visual_sessions
       ELSE /\ visual_sessions' = Append(visual_sessions, f_calls)
            /\ UNCHANGED open_browsers
    /\ f_pc' = "returned"
    /\ UNCHANGED <<f_located, headless_env, HEADLESS_MODE, f_items, f_boxes, f_page,
                   f_calls,
                   f_exc, f_result, f_reply>>
    /\ UNCHANGED NotFiller

\* app.py lines 182-192: the response is chosen by result["success"].
FRespond ==
    /\ f_pc = "returned"
    /\ f_reply' = IF f_result.success
                  THEN Reply("success", "Documents processed and form populated successfully")
                  ELSE Reply("error", "Form population failed")
    /\ f_pc' = "responded"
    /\ UNCHANGED <<f_located, headless_env, HEADLESS_MODE, f_items, f_boxes, f_page,
                   f_calls,
                   open_browsers, visual_sessions, f_exc, f_result>>
    /\ UNCHANGED NotFiller

\* The request is over; the process waits for the next one.
FReset ==
    /\ f_pc = "responded"
    /\ f_pc' = "idle"
    /\ f_items' = Unset
    /\ f_boxes' = Unset
    /\ f_page' = Unset
    /\ f_located' = <<>>
    /\ f_exc' = NoExc
    /\ f_result' = Unset
    /\ f_reply' = NoReply
    /\ UNCHANGED <<headless_env, HEADLESS_MODE, f_calls, open_browsers, visual_sessions>>
    /\ UNCHANGED NotFiller

NextFiller ==
    \/ FImport
    \/ FCall
    \/ FLaunchFails
    \/ FLaunch
    \/ FFillPage
    \/ FFinish
    \/ FRespond
    \/ FReset

\* --------------------------------------------------------- acquisition claims

DirectOnly == <<Eff("extract_text_from_pdf", TRUE)>>

FallbackEntered ==
    IF fn = "local" THEN Called("get_pdf_page_count") ELSE Called("upload_file")

\* C1: for a PDF, in both acquisition functions, embedded text whose trimmed
\* length is at least 50 is returned unchanged and nothing but the embedded
\* text extraction was called; with a trimmed length of 49 or less, or no
\* embedded text, the fallback (page count and OCR, resp. upload) is entered.
C1_DirectTextThreshold ==
    (pc = "done" /\ doc.ext = ".pdf") =>
        IF ~text.none /\ Len(Strip(text.val)) >= 50
        THEN ret = text /\ effects = DirectOnly
        ELSE FallbackEntered

C1_Witness ==
    /\ pc = "done" /\ doc.ext = ".pdf" /\ fn = "gemini"
    /\ ~text.none /\ Len(Strip(text.val)) = 50
    /\ ret = text /\ effects = DirectOnly

\* The detections the specification expects to survive: those with a
\* confidence above 0.3 (a bare-text line counts as confidence 1.0).
Survivors(lines) ==
    SelectSeq(lines, LAMBDA l : l.form = "str" \/ (l.form = "pair" /\ l.confidence > 30))

RECURSIVE Spaced(_)
Spaced(ls) ==
    IF Len(ls) = 1 THEN ls[1].text
    ELSE Spaced(SubSeq(ls, 1, Len(ls) - 1)) \o <<" ">> \o ls[Len(ls)].text

OcrRan ==
    \E i \in 1..Len(effects) : effects[i] = Eff("ocr", TRUE)

\* C2: extract_text_from_image keeps exactly the detections with confidence
\* strictly above 0.3, joins their texts with single spaces in detection
\* order, and returns nothing when there are no detections or none survives;
\* detections at [0.29, 0.30, 0.31, 0.9] leave the third and fourth.
C2_ConfidenceFilter ==
    (pc = "done" /\ fn = "local" /\ doc.ext \in ImageSuffixes /\ OcrRan) =>
        /\ ret = IF results.falsy \/ Survivors(results.lines) = <<>>
                 THEN None
                 ELSE Some(Spaced(Survivors(results.lines)))
        /\ (/\ Len(results.lines) = 4
            /\ \A i \in 1..4 : results.lines[i].form = "pair"
            /\ [i \in 1..4 |-> results.lines[i].confidence] = <<29, 30, 31, 90>>)
           => ret = Some(<<"w", "3", " ", "w", "4">>)

C2_Witness ==
    /\ pc = "done" /\ fn = "local" /\ doc.ext = ".png" /\ OcrRan
    /\ Len(results.lines) = 4
    /\ \A i \in 1..4 : results.lines[i].form = "pair"
    /\ [i \in 1..4 |-> results.lines[i].confidence] = <<29, 30, 31, 90>>
    /\ ret = Some(<<"w", "3", " ", "w", "4">>)

UploadedAt(i) == effects[i] = Eff("upload_file", TRUE)

\* C3: in extract_passport_text_with_gemini, once upload_file has succeeded,
\* delete_file has been attempted at least once, after the upload, by the time
\* the function returns.
C3_CleanupAfterUpload ==
    (pc = "done" /\ fn = "gemini") =>
        \A i \in 1..Len(effects) :
            UploadedAt(i) =>
                \E j \in (i + 1)..Len(effects) : effects[j].call = "delete_file"

C3_Witness ==
    /\ pc = "done" /\ fn = "gemini"
    /\ \E i \in 1..Len(effects) : UploadedAt(i)
    /\ \E i \in 1..Len(effects) : effects[i] = Eff("generate_content", FALSE)
    /\ CountCalls("delete_file") = 1


\* ---- C18

\* An OCR run was made in the current call.
OcrCalled == \E i \in 1..Len(effects) : effects[i].call = "ocr"

\* C18: over every sequence of acquisition calls of the process, PaddleOCR
\* is built at most once; the module global holds the engine from then on,
\* and every OCR run is made on the engine the global holds.
C18_ReaderBuiltOnce ==
    /\ ocr_builds <= 1
    /\ (ocr_reader = "PaddleOCR") <=> (ocr_builds = 1)
    /\ OcrCalled => ocr_reader = "PaddleOCR"
    /\ \A i \in 1..Len(effects) :
          effects[i] = Eff("PaddleOCR", TRUE) =>
              \A j \in 1..Len(effects) : (effects[j].call = "PaddleOCR") => j <= i

\* A later call ran OCR on the engine an earlier call had built.
C18_Witness ==
    /\ calls = 2
    /\ ocr_builds = 1
    /\ OcrCalled
    /\ ~Called("PaddleOCR")

\* ---- C20

\* The OCR fallback of extract_text_from_pdf_or_image has ended.
FallbackDone == pc = "done" /\ fn = "local" /\ Called("get_pdf_page_count")

\* The block of page n: its marker, a line break, and a text.
IsBlockOf(block, n) ==
    LET marker == <<"[", "P", "a", "g", "e", " ">> \o IntStr(n) \o <<"]", "\n">>
    IN  StartsWith(block, marker) /\ Len(block) > Len(marker)

\* The text extract_text_from_image gave for the page just tried, None when
\* the page was not rendered, the engine was missing or raised, or nothing
\* survived the filter.
PageYield(before, after, reader, out) ==
    IF after[Len(before) + 1] /= Eff("convert_pdf_page_to_image", TRUE) THEN None
    ELSE IF reader /= "PaddleOCR" \/ out.raises \/ out.falsy THEN None
    ELSE IF Survivors(out.lines) = <<>> THEN None
    ELSE Some(Spaced(Survivors(out.lines)))

\* One pass of the page loop leaves the list alone when the page gave no
\* text and appends the page's block when it gave one.
PageStep ==
    (pc = "pages" /\ page_num' = page_num + 1) =>
        LET page_text == PageYield(effects, effects', ocr_reader', results')
        IN  page_texts' = IF page_text.none THEN page_texts
                          ELSE Append(page_texts,
                                      <<"[", "P", "a", "g", "e", " ">> \o IntStr(page_num')
                                          \o <<"]", "\n">> \o page_text.val)

\* The blocks are those of pages in increasing order.
BlocksInOrder ==
    \E ns \in [1..Len(page_texts) -> 1..page_count] :
        /\ \A i \in 1..Len(page_texts) : IsBlockOf(page_texts[i], ns[i])
        /\ \A i, j \in 1..Len(page_texts) : i < j => ns[i] < ns[j]

\* blocks[1] + "\n\n" + blocks[2] + ...
RECURSIVE BlankLineJoined(_)
BlankLineJoined(blocks) ==
    IF Len(blocks) = 1 THEN blocks[1]
    ELSE BlankLineJoined(SubSeq(blocks, 1, Len(blocks) - 1))
             \o <<"\n", "\n">> \o blocks[Len(blocks)]

\* What holds when the fallback has ended.
FallbackResult ==
    FallbackDone =>
        /\ page_count = 0 => (ret = None /\ ~Called("convert_pdf_page_to_image"))
        /\ page_count > 0 =>
              /\ CountCalls("convert_pdf_page_to_image") = page_count
              /\ BlocksInOrder
              /\ ret = IF page_texts = <<>> THEN None
                       ELSE Some(BlankLineJoined(page_texts))

\* C20: in the OCR fallback a page count of zero fails the document;
\* otherwise every page is tried once, in order; a page that is not
\* rendered, raises or gives no text adds nothing and the next page is
\* tried; a page that gives text adds its block '[Page N]' + text; the
\* result is the blocks joined by blank lines, page N before page N+1, and
\* nothing exactly when no page gave text.
C20_OcrFallback == [][PageStep]_vars /\ []FallbackResult

\* The first page gave nothing, the second one gave text: the result is the
\* block of page 2 alone.
C20_Witness ==
    /\ FallbackDone
    /\ page_count = 2
    /\ Len(page_texts) = 1
    /\ IsBlockOf(page_texts[1], 2)
    /\ ret = Some(page_texts[1])

\* ---- C24

\* The remote call of the PDF branch returned a response.
Transcribed ==
    /\ pc = "done" /\ fn = "gemini"
    /\ Called("upload_file")
    /\ \E i \in 1..Len(effects) : effects[i] = Eff("generate_content", TRUE)

\* The delete_file calls of the current call, in the order they were made.
Deletes == SelectSeq(effects, LAMBDA x : x.call = "delete_file")

\* C24: after a successful remote call in the PDF branch of
\* extract_passport_text_with_gemini, a text is returned only when the
\* first delete_file call succeeded; when that call raises, delete_file is
\* called a second time, the function returns None whatever the response
\* held, and the test of app.py line 139 takes the acquisition for failed.
C24_CleanupFailureDropsText ==
    Transcribed =>
        /\ Len(Deletes) >= 1
        /\ Truthy(ret) => Deletes = <<Eff("delete_file", TRUE)>>
        /\ ~Deletes[1].ok =>
              /\ Len(Deletes) = 2
              /\ ret = None
              /\ ~Obtained(ret)

\* A response with text, a first delete_file that raised, a second attempt,
\* and nothing returned.
C24_Witness ==
    /\ Transcribed
    /\ response = Response(TRUE, Some(<<"P", "<", "X">>))
    /\ Len(Deletes) = 2
    /\ ~Deletes[1].ok
    /\ ret = None
\* --------------------------------------------------------- extract_data: properties

\* extract_data has ended, by returning or by raising.
Finished == x_pc \in {"returned", "raised"}

\* The response text, once the fence is taken off, is one JSON text.
Parseable == JsonParses(StripFences(raw))

\* A top-level object with an object under "passport" and under "g28".
FullShape(d) == d.top = "obj" /\ d.passport.kind = "obj" /\ d.g28.kind = "obj"

\* A top-level object in which "passport" and "g28", where present, are objects.
ObjectWherePresent(d) ==
    /\ d.top = "obj"
    /\ d.passport.kind \in {"obj", "missing"}
    /\ d.g28.kind \in {"obj", "missing"}

\* C5 as stated: extract_data fails with a ValueError whenever the remote call
\* raises, the text is not parseable, or the JSON lacks a top-level object with
\* 'passport' and 'g28' sub-objects; no other exception type escapes.
C5_FailsWithoutFullShape ==
    /\ x_pc = "returned" => (Parseable /\ FullShape(payload))
    /\ x_pc = "raised" => IsValueError(raised.type)

\* C5 amended: extract_data fails with a ValueError whenever the remote call
\* raises, the text is not parseable, the top-level JSON value is not an
\* object, or 'passport' or 'g28' is present and is not an object; an absent
\* 'passport' or 'g28' key does not fail.  Every exception that escapes is a
\* ValueError.
C5_FailureIsValueError ==
    /\ x_pc = "returned" => (exc = NoExc /\ Parseable /\ ObjectWherePresent(payload))
    /\ x_pc = "raised" =>
          /\ IsValueError(raised.type)
          /\ exc.type \in {"RemoteError", "AttributeError"} => raised.type = "ValueError"
    /\ (Finished /\ Parseable /\ payload.top = "obj"
          /\ payload.passport = NonObject(PassportFields, "missing")
          /\ payload.g28 = NoG28("missing"))
       => x_pc = "returned"

\* A null under "g28" ended the call with the generic ValueError.
C5_Witness ==
    /\ x_pc = "raised"
    /\ Parseable
    /\ payload.top = "obj"
    /\ payload.g28.kind = "null"
    /\ exc.type = "AttributeError"
    /\ raised.type = "ValueError"
    /\ raised.category = "generic"

\* ---- C6

Nullish == {"missing", "null"}

\* Every leaf of the member is null or missing.
NullLeaves(m) == \A f \in DOMAIN m.fields : m.fields[f].kind \in Nullish

\* A group of the G-28 object: an object with null leaves, null, or missing.
NullGroup(m) == m.kind \in {"obj", "missing", "null"} /\ NullLeaves(m)

\* The schema with every leaf null or missing.
NullPayload(d) ==
    /\ ObjectWherePresent(d)
    /\ NullLeaves(d.passport)
    /\ NullGroup(d.g28.attorney)
    /\ NullGroup(d.g28.eligibility)
    /\ NullGroup(d.g28.client)

\* The leaf is null, missing, or a value of the field's declared type.
WellTypedLeaf(f, leaf) ==
    \/ leaf.kind \in Nullish
    \/ FieldType(f) = "str" /\ leaf.kind = "str"
    \/ FieldType(f) = "bool" /\ leaf.kind \in {"true", "false"}
    \/ FieldType(f) = "date" /\ leaf = JStr(ValidDate)

WellTypedMember(m) ==
    m.kind = "obj" /\ \A f \in DOMAIN m.fields : WellTypedLeaf(f, m.fields[f])

\* The record holds a value exactly where the object has a non-null leaf.
AbsentWhereNull(rec, m) ==
    \A f \in DOMAIN rec : (rec[f] = Absent) <=> (m.fields[f].kind \in Nullish)

\* C6: a parseable response whose leaves are all null makes extract_data
\* return records whose fields are all absent; with correctly typed values
\* in any subset of the leaves and null or nothing in the others it still
\* returns, each field absent exactly where its leaf is null or missing.
C6_NullLeavesTolerated ==
    /\ (Finished /\ Parseable /\ NullPayload(payload)) =>
          /\ x_pc = "returned"
          /\ passport_data = AllAbsent(PassportFields)
          /\ g28_data.attorney.rec = AllAbsent(AttorneyFields)
          /\ g28_data.eligibility.rec = AllAbsent(EligibilityFields)
          /\ g28_data.client.rec = AllAbsent(ClientFields)
    /\ (Finished /\ Parseable /\ payload.top = "obj"
          /\ WellTypedMember(payload.passport)
          /\ payload.g28.kind = "obj"
          /\ WellTypedMember(payload.g28.attorney)
          /\ WellTypedMember(payload.g28.eligibility)
          /\ WellTypedMember(payload.g28.client)) =>
          /\ x_pc = "returned"
          /\ AbsentWhereNull(passport_data, payload.passport)
          /\ AbsentWhereNull(g28_data.attorney.rec, payload.g28.attorney)
          /\ AbsentWhereNull(g28_data.eligibility.rec, payload.g28.eligibility)
          /\ AbsentWhereNull(g28_data.client.rec, payload.g28.client)

\* The response with neither key was turned into two empty records.
C6_Witness ==
    /\ x_pc = "returned"
    /\ payload = JsonDoc("obj", NonObject(PassportFields, "missing"), NoG28("missing"))
    /\ passport_data = AllAbsent(PassportFields)
    /\ ~g28_data.attorney.present

\* ---- C7

\* response_text[:500]
Excerpt(t) == SubSeq(t, 1, IF Len(t) < ExcerptLen THEN Len(t) ELSE ExcerptLen)

HasWording(msg) == \E i \in 1..Len(msg) : msg[i] = Lit(InvalidJsonWording)

HasDiagnostic(msg) == \E i \in 1..Len(msg) : msg[i] = Diagnostic

\* The message carries text copied from the response.
HasExcerpt(msg, t) ==
    \E i \in 1..Len(msg) : msg[i].kind = "text" /\ msg[i].val = Excerpt(t)

\* The remote call returned and response.text gave a text.
GotText == exc.type \notin {"RemoteError", "AttributeError"} /\ exc /= BlockedError

\* extract_data raised because json.loads refused the text.
ParseFailed == x_pc = "raised" /\ exc.category = "invalid_json"

DateOrAbsent(v) == v.kind \in {"absent", "date"}

\* C8: whatever JSON value stands under one of the three date fields,
\* extract_data returns, with that field a calendar date or absent and the
\* other passport fields as extracted.
C8_BadDateDegrades ==
    \A b \in Bases, f \in DateFields, l \in DateLeaves :
        (Finished /\ Parseable
           /\ payload = JsonDoc("obj", ObjectWith(PassportFields, b, f, l), DefaultG28)) =>
            /\ x_pc = "returned"
            /\ DateOrAbsent(passport_data[f])
            /\ \A g \in PassportFields \ {f} :
                  (passport_data[g] = Absent) <=> (b \in Nullish)

\* ---- C9

\* What extract_data ends with: [x_pc, passport_data, g28_data, raised].
Outcome(status, p, g, e) ==
    [x_pc |-> status, passport_data |-> p, g28_data |-> g, raised |-> e]

\* The outcome of extract_data on the response t that stands for payload d.
OutcomeOf(t, d, l) ==
    IF ~JsonParses(StripFences(t))
    THEN Outcome("raised", Unset, Unset,
                 Exc("ValueError", "invalid_json", InvalidJsonMessage))
    ELSE IF Build(d, l).exc = NoExc
    THEN Outcome("returned", Build(d, l).passport_data, Build(d, l).g28_data, NoExc)
    ELSE Outcome("raised", Unset, Unset, Handle(Build(d, l).exc))

\* C9: a response that is the JSON text J inside a code fence (tagged json
\* or not, with blank space around) ends extract_data with the records, or
\* the failure, that the response J alone ends it with.
C9_FenceTransparent ==
    \A open \in {Fence, FenceJson}, a \in {<<>>, <<" ">>}, J \in JsonTexts,
       b \in {<<>>, <<"\n">>} :
        (Finished /\ raw = Fenced(open, a, J, b)) =>
            Outcome(x_pc, passport_data, g28_data, raised) = OutcomeOf(J, payload, lax)

\* A response fenced with the json tag gave its records.
C9_Witness ==
    /\ x_pc = "returned"
    /\ raw = Fenced(FenceJson, <<>>, <<"\n", Body, "\n">>, <<>>)
    /\ payload = DefaultDoc

\* ---- C10

\* The ordered rules of the specification, matched top to bottom against the
\* lower-cased text.
FirstRule(t) ==
    IF Contains(Lower(t), <<"a", "p", "i", " ", "k", "e", "y">>) \/ Contains(Lower(t), <<"a", "u", "t", "h", "e", "n", "t", "i", "c", "a", "t", "i", "o", "n">>)
    THEN "auth"
    ELSE IF Contains(Lower(t), <<"q", "u", "o", "t", "a">>) \/ Contains(Lower(t), <<"r", "a", "t", "e", " ", "l", "i", "m", "i", "t">>)
    THEN "quota"
    ELSE IF Contains(Lower(t), <<"m", "o", "d", "e", "l">>)
    THEN "model"
    ELSE "generic"

\* C10: the category of the ValueError raised for a failed remote call is
\* that of the first matching rule (authentication, quota, model, generic),
\* each pattern matched as a case-insensitive substring of the error text.
C10_CaseInsensitiveRules ==
    (x_pc = "raised" /\ exc.type = "RemoteError") =>
        raised.category = FirstRule(ErrorMsg(exc))

\* --------------------------------------------------------- process_documents: properties

\* The stage function was called by the request.
Ran(r, stage) == \E i \in 1..Len(trace[r]) : trace[r][i] = stage

\* The request ended with an error response right after calling `stage`.
EndedAt(r, stage) ==
    /\ p_pc[r] = "responded"
    /\ reply[r].status = "error"
    /\ Last(trace[r]) = stage

\* Python truthiness of the acquired text: a text with a character in it.
NonEmptyText(o) == ~o.none /\ Len(o.val) > 0

\* C4: a failed passport acquisition, G-28 acquisition or extraction ends the
\* request with an error response and no later stage runs; extract_data is
\* called only after both texts were obtained non-empty, and
\* map_to_form_fields and populate_form only after extract_data returned.
C4_FailureStopsPipeline ==
    \A r \in Requests :
        /\ (Ran(r, "extract_passport_text_with_gemini") /\ ~NonEmptyText(passport_text[r]))
              => EndedAt(r, "extract_passport_text_with_gemini")
        /\ (Ran(r, "extract_text_from_pdf_or_image") /\ ~NonEmptyText(g28_text[r]))
              => EndedAt(r, "extract_text_from_pdf_or_image")
        /\ (Ran(r, "extract_data") /\ extraction[r] /= "returned")
              => EndedAt(r, "extract_data")
        /\ Ran(r, "extract_text_from_pdf_or_image") => NonEmptyText(passport_text[r])
        /\ Ran(r, "extract_data") =>
              /\ Ran(r, "extract_passport_text_with_gemini")
              /\ Ran(r, "extract_text_from_pdf_or_image")
              /\ NonEmptyText(passport_text[r])
              /\ NonEmptyText(g28_text[r])
        /\ (Ran(r, "map_to_form_fields") \/ Ran(r, "populate_form")) =>
              (Ran(r, "extract_data") /\ extraction[r] = "returned")

\* One request stopped at an empty G-28 text while the other one went on to
\* fill the form.
C4_Witness ==
    \E r, q \in Requests :
        /\ EndedAt(r, "extract_text_from_pdf_or_image")
        /\ g28_text[r] = Some(<<>>)
        /\ ~Ran(r, "extract_data")
        /\ Ran(q, "populate_form")
        /\ extraction[q] = "returned"

\* ---- C15

\* The file name carries one of the four extensions.
CarriesExtension(filename) ==
    Truthy(filename) /\ \E ext \in valid_extensions : EndsWith(Lower(filename.val), ext)

\* Both uploads of the request passed validate_upload.
Validated(r) == ~passport_path[r].none

\* C15: an upload whose name does not carry .pdf, .jpg, .jpeg or .png (in
\* any case) does not pass validate_upload, and no stored file whose path
\* suffix is outside that set is handed to extract_passport_text_with_gemini
\* or extract_text_from_pdf_or_image.
C15_UnsupportedNeverAcquired ==
    \A r \in Requests :
        /\ Validated(r) =>
              (CarriesExtension(passport_name[r]) /\ CarriesExtension(g28_name[r]))
        /\ Ran(r, "extract_passport_text_with_gemini") => Supported(passport_path[r].val)
        /\ Ran(r, "extract_text_from_pdf_or_image") => Supported(g28_path[r].val)

\* ---- C16

\* One of the request's uploads is larger than MAX_FILE_SIZE_MB.
Oversized(r) == passport_size[r] > MAX_FILE_SIZE_MB \/ g28_size[r] > MAX_FILE_SIZE_MB

\* C16: a request with an upload larger than MAX_FILE_SIZE_MB ends at
\* validate_upload with an error response: no path is made for it, no file
\* of it is stored and no acquisition, extraction or fill call is made.
C16_OversizedRejected ==
    \A r \in Requests :
        Oversized(r) =>
            /\ EndedAt(r, "validate_upload")
            /\ passport_path[r].none /\ g28_path[r].none
            /\ \A i \in 1..Len(trace[r]) : trace[r][i] = "validate_upload"

\* ---- C22

\* The step with which process_documents ends for the request.
Finishes(r) == p_pc[r] /= "responded" /\ p_pc'[r] = "responded"

\* The path was made and its file is under uploads/ after the step.
StillThere(path) == Truthy(path) /\ path.val \in files'

\* C22: when process_documents finishes, whatever the path it took, neither
\* upload file of the request is left under uploads/.
C22_UploadsRemoved ==
    [][\A r \in Requests :
          Finishes(r) => (~StillThere(passport_path'[r]) /\ ~StillThere(g28_path'[r]))]_vars

\* ---- C23

\* C23: when a request is answered with the success response, the file
\* uploads/form_populated.png the response points to is the one its own
\* populate_form run wrote: no other request's run has written it since.
C23_OwnScreenshotReported ==
    [][\A r \in Requests :
          (Finishes(r) /\ reply'[r].status = "success") => screenshot = r]_vars

\* --------------------------------------------------------- data_mapper.py: properties

\* map_to_form_fields has returned its dict.
FieldsMapped == m_pc \in {"checkboxes", "mapped"}

\* The text of an optional string, "" when it is None.
TextOrEmpty(val) == IF val = Absent THEN <<>> ELSE val.s

\* C11: the field map always holds 'passport-given-names' with the given
\* names as they are and 'passport-middle-name' with the middle names, the
\* empty string when there are none.
C11_GivenAndMiddleSlots ==
    FieldsMapped =>
        /\ {"passport-given-names", "passport-middle-name"} \subseteq DOMAIN fields
        /\ fields["passport-given-names"] = TextOrEmpty(m_passport.given_names)
        /\ fields["passport-middle-name"] = TextOrEmpty(m_passport.middle_names)

\* Two given names and no middle name: the second slot is there and empty.
C11_Witness ==
    /\ m_pc = "mapped"
    /\ m_passport.given_names = StrValue(<<"J", "o", "h", "n", " ", "P", "a", "u", "l">>)
    /\ m_passport.middle_names = Absent
    /\ fields["passport-given-names"] = <<"J", "o", "h", "n", " ", "P", "a", "u", "l">>
    /\ fields["passport-middle-name"] = <<>>

\* ---- C12

\* g28_data.eligibility.is_not_subject_to_orders, None when there is no group.
NotSubject ==
    IF m_g28.eligibility.present
    THEN m_g28.eligibility.rec.is_not_subject_to_orders
    ELSE Absent

\* C12: the checkbox map is empty when is_not_subject_to_orders is None or
\* the eligibility group is missing, and holds the one entry 'not-subject'
\* with the value itself when it is false or true.
C12_CheckboxNullVsFalse ==
    m_pc = "mapped" =>
        /\ NotSubject = Absent => DOMAIN checkboxes = {}
        /\ NotSubject = BoolValue(FALSE) =>
              (DOMAIN checkboxes = {"not-subject"} /\ checkboxes["not-subject"] = FALSE)
        /\ NotSubject = BoolValue(TRUE) =>
              (DOMAIN checkboxes = {"not-subject"} /\ checkboxes["not-subject"] = TRUE)

\* A false value came out as an entry.
C12_Witness ==
    /\ m_pc = "mapped"
    /\ NotSubject = BoolValue(FALSE)
    /\ checkboxes = [k \in {"not-subject"} |-> FALSE]

\* ---- C13

PassportIds ==
    {"passport-surname", "passport-given-names", "passport-middle-name",
     "passport-number", "passport-country", "passport-nationality", "passport-dob",
     "passport-pob", "passport-sex", "passport-issue-date", "passport-expiry-date"}

EmptyRecords ==
    /\ m_passport = AllAbsent(PassportFields)
    /\ ~m_g28.attorney.present
    /\ ~m_g28.eligibility.present
    /\ ~m_g28.client.present

\* C13: neither mapper call raises, whatever is set in the two records; for
\* two empty records the field map holds the passport identifiers, each with
\* the empty string, and the checkbox map is empty.
C13_MapperTotal ==
    /\ m_pc /= "raised"
    /\ m_exc = NoExc
    /\ (m_pc = "mapped" /\ EmptyRecords) =>
          /\ DOMAIN fields = PassportIds
          /\ \A id \in DOMAIN fields : fields[id] = <<>>
          /\ DOMAIN checkboxes = {}

\* Both records empty, both maps made.
C13_Witness ==
    /\ m_pc = "mapped"
    /\ EmptyRecords
    /\ fields = [id \in PassportIds |-> <<>>]
    /\ checkboxes = <<>>

\* ---- C14

\* The identifiers of the field map whose value is v.
Carriers(v) == { id \in DOMAIN fields : fields[id] = v }

\* The field of the group holds the value that names it.
Marked(rec, group, f) == rec[f] = FieldValue(group, f)

\* The text the field's value is rendered as.
Rendered(group, f) ==
    IF group = "passport" /\ f \in DateFields THEN IsoDate(DateOf(f))
    ELSE FieldText(group, f)

\* Exactly one identifier of the field map carries the field's value.
MappedOnce(rec, group, f) ==
    Marked(rec, group, f) => Cardinality(Carriers(Rendered(group, f))) = 1

\* C14: every field of the passport record, of AttorneyInfo and of
\* EligibilityInfo reaches exactly one identifier (the boolean one in the
\* checkbox map), distinct fields distinct identifiers, and no ClientInfo
\* field reaches any.
C14_EveryFieldMappedOnce ==
    m_pc = "mapped" =>
        /\ \A f \in PassportFields : MappedOnce(m_passport, "passport", f)
        /\ m_g28.attorney.present =>
              \A f \in AttorneyFields : MappedOnce(m_g28.attorney.rec, "attorney", f)
        /\ m_g28.eligibility.present =>
              \A f \in EligibilityFields \ BoolFields :
                  MappedOnce(m_g28.eligibility.rec, "eligibility", f)
        /\ NotSubject /= Absent => Cardinality(DOMAIN checkboxes) = 1
        /\ \A f \in ClientFields : Carriers(FieldText("client", f)) = {}

\* --------------------------------------------------------- populate_form: properties

\* populate_form has returned its dict.
Returned == f_pc \in {"returned", "responded"}

\* ---- C17

\* C17: with HEADLESS_MODE not set in the environment, populate_form returns
\* with its browser closed and keeps no session; a session is kept only when
\* the environment sets HEADLESS_MODE.
C17_DefaultClosesBrowser ==
    /\ (headless_env = None /\ Returned) =>
          (f_calls \notin open_browsers /\ visual_sessions = <<>>)
    /\ visual_sessions /= <<>> => headless_env \notin {Unset, None}

\* ---- C19

\* The field or checkbox has an element and touching it does not raise.
Settable(field_id) ==
    field_id \notin f_page.raising /\ Count(f_page, Element(field_id)) > 0

\* The browser run raised: at the launch, at the navigation, or at the
\* screenshot.
RunRaised == f_exc /= NoExc

\* Some non-empty field or some checkbox of the call can be set on the page.
SomeSettable ==
    \/ \E i \in 1..Len(f_items) : f_items[i].value /= <<>> /\ Settable(f_items[i].id)
    \/ \E i \in 1..Len(f_boxes) : Settable(f_boxes[i].id)

\* C19: the report's success is true exactly when its list of filled fields
\* and checkboxes is not empty; it is false when no attempt could succeed,
\* when every value is empty and there is no checkbox, and when the browser
\* run raised; and process_documents answers with the success response
\* exactly when success is true, with the error response otherwise.
C19_SuccessIffSomethingFilled ==
    /\ Returned =>
          /\ f_result.success <=> (f_result.filled_fields /= <<>>)
          /\ RunRaised => (~f_result.success /\ f_result.filled_fields = <<>>)
          /\ ~RunRaised => (f_result.success <=> SomeSettable)
    /\ f_pc = "responded" =>
          f_reply.status = (IF f_result.success THEN "success" ELSE "error")

\* Every attempt failed, nothing raised: success is false and the response
\* is the error response.
C19_Witness ==
    /\ f_pc = "responded"
    /\ ~RunRaised
    /\ f_result.filled_fields = <<>>
    /\ Len(f_result.failed_fields) > 1
    /\ ~f_result.success
    /\ f_reply = Reply("error", "Form population failed")


\* ---- C21

\* How many times x stands in the sequence.
Occurrences(seq, x) == Cardinality({ i \in 1..Len(seq) : seq[i] = x })

\* _fill_page has returned its dict to populate_form.
PageFilled == f_pc \in {"close", "returned", "responded"} /\ ~RunRaised

\* The id was tried once: its element asked for once, and the id put once
\* in the list its outcome calls for and not in the other.
TriedOnce(field_id, element) ==
    /\ Occurrences(f_located, element) = 1
    /\ IF Settable(field_id)
       THEN /\ Occurrences(f_result.filled_fields, field_id) = 1
            /\ Occurrences(f_result.failed_fields, field_id) = 0
       ELSE /\ Occurrences(f_result.filled_fields, field_id) = 0
            /\ Occurrences(f_result.failed_fields, field_id) = 1

\* C21: in the dict _fill_page returns, a field with the empty string is in
\* neither list and its element was never asked for; every non-empty field
\* and every checkbox was tried exactly once and is in exactly one list,
\* failed_fields when its element is missing or raises, whatever happened
\* to the ones before it; total_filled + total_failed is the number of
\* non-empty fields plus the number of checkboxes.
C21_FillPageAccounting ==
    PageFilled =>
        /\ \A i \in 1..Len(f_items) :
              IF f_items[i].value = <<>>
              THEN /\ Occurrences(f_result.filled_fields, f_items[i].id) = 0
                   /\ Occurrences(f_result.failed_fields, f_items[i].id) = 0
                   /\ Occurrences(f_located, Element(f_items[i].id)) = 0
              ELSE TriedOnce(f_items[i].id, Element(f_items[i].id))
        /\ \A i \in 1..Len(f_boxes) : TriedOnce(f_boxes[i].id, Locator(f_boxes[i].id, -1))
        /\ f_result.total_filled + f_result.total_failed =
              Cardinality({ i \in 1..Len(f_items) : f_items[i].value /= <<>> })
                  + Len(f_boxes)

\* The first field raised, the second was empty, and the third field and
\* the checkbox were still set.
C21_Witness ==
    /\ PageFilled
    /\ f_items = << Assign("passport-surname", <<"v">>), Assign("passport-given-names", <<>>),
                    Assign("passport-middle-name", <<"v">>) >>
    /\ f_result.failed_fields = <<"passport-surname">>
    /\ f_result.filled_fields = <<"passport-middle-name", "not-subject">>
    /\ f_result.total_filled + f_result.total_failed = 3
\* --------------------------------------------------------- specifications

\* Nothing is running: no acquisition call, no extraction call, and the
\* requests have not been received.
Init == InitAcq /\ InitExtract /\ InitPipeline /\ InitMapper /\ InitFiller

\* Text acquisition on its own: a process that calls the two functions.
SpecAcq == Init /\ [][NextAcq]_vars

\* Structured extraction on its own.
SpecExtract == Init /\ [][NextExtract]_vars

\* The field mapper on its own.
SpecMapper == Init /\ [][NextMapper]_vars

\* populate_form on its own, with the response taken from its result.
SpecFiller == Init /\ [][NextFiller]_vars

\* The endpoint serving its requests.
Spec == Init /\ [][NextPipeline]_vars

====
